---- MODULE Spec2Model ----
(***************************************************************************)
(* East Asian contextual spacing: glyph classification (GlyphSetTrio and   *)
(* its GlyphTypeCache) and feature-table synthesis (add_to_table,          *)
(* build_lookup, EastAsianSpacing) and the collection coordinator          *)
(* (Builder.build_collection), modelled from spacing.py, font.py and       *)
(* builder.py of src/east_asian_spacing.                                   *)
(*                                                                         *)
(* The shaper and the Config object are external to these files: every     *)
(* shaping probe is an input (a set of glyph IDs, already filtered to the  *)
(* full-width advance), and the fields of the configuration that the code  *)
(* reads are inputs as well.  The interpreter runs with assertions on      *)
(* (__debug__ is true), which is the default build.                        *)
(***************************************************************************)
EXTENDS Integers, Sequences, FiniteSets, TLC

VARIABLES
    call,       \* the last call of a classifier, or the inputs of a run
    trio,       \* the GlyphSetTrio being filled by add_glyphs passes
    cache,      \* the GlyphTypeCache objects, by the font object that holds them
    pass,       \* the add_glyphs pass in flight
    spacing,    \* the EastAsianSpacing handed to synthesis
    table,      \* the GPOS table of the face being built
    synth,      \* the last synthesis call and how it ended
    build       \* the Builder and its build call

vars == <<call, trio, cache, pass, spacing, table, synth, build>>

(***************************************************************************)
(* Bounds.                                                                 *)
(***************************************************************************)
MaxGlyph == 2
Glyphs == 1..MaxGlyph
GlyphSets == SUBSET Glyphs

\* config.language: None or an OpenType language tag.
Languages == {"None", "JAN", "ZHS", "ZHT", "ZHH", "KOR"}
\* config.is_colon_semicolon_middle: None, True or False.
Flags == {"None", "True", "False"}

(***************************************************************************)
(* GlyphSetTrio: the three sets.                                           *)
(***************************************************************************)
GlyphSetTrio(left, right, middle) ==
    [left |-> left, right |-> right, middle |-> middle]

EmptyTrio == GlyphSetTrio({}, {}, {})

\* GlyphSetTrio.assert_glyphs_are_disjoint: TRUE when no assertion fails.
glyphs_are_disjoint(t) ==
    /\ t.left \cap t.middle = {}
    /\ t.left \cap t.right = {}
    /\ t.middle \cap t.right = {}

\* GlyphSetTrio.unite with a trio (None is handled by the caller's outcome).
unite(self, other) ==
    [self EXCEPT !.left = self.left \cup other.left,
                 !.middle = self.middle \cup other.middle,
                 !.right = self.right \cup other.right]

(***************************************************************************)
(* Outcomes of a call: a returned trio, a returned None, or a raise.  Both *)
(* kinds of raise are AssertionError in the code; "require_language" is    *)
(* the one raised by Font.raise_require_language, whose message lists the  *)
(* font's script and language-system tags.                                 *)
(***************************************************************************)
Returns(t) == [kind |-> "trio", trio |-> t, error |-> "none", tags |-> {}]
ReturnsNone == [kind |-> "None", trio |-> EmptyTrio, error |-> "none", tags |-> {}]
AssertionFails ==
    [kind |-> "raise", trio |-> EmptyTrio, error |-> "assert", tags |-> {}]

\* Font.script_and_langsys_tags_for_table: (script, None) for every script
\* record and (script, langsys) for each of its LangSysRecords.  A script
\* list is a sequence of [tag, langsys], langsys the sequence of LangSysTags.
script_and_langsys_tags_for_table(scripts) ==
    UNION {{<<scripts[i].tag, "None">>}
           \cup {<<scripts[i].tag, scripts[i].langsys[j]>> :
                    j \in 1..Len(scripts[i].langsys)} : i \in 1..Len(scripts)}

\* Font.raise_require_language: the tags of the font's GSUB and GPOS
\* tables, each once (the message's text layout is not modelled).
raise_require_language(font) ==
    [kind |-> "raise", trio |-> EmptyTrio, error |-> "require_language",
     tags |-> script_and_langsys_tags_for_table(font.gsub_scripts)
              \cup script_and_langsys_tags_for_table(font.gpos_scripts)]

(***************************************************************************)
(* GlyphTypeCache.  A cache object is [exists, type_by_glyph_id]; exists   *)
(* is FALSE while the font object has no east_asian_spacing_ attribute.    *)
(* Types are "L", "M", "R"; "N" stands for a glyph with no entry.          *)
(***************************************************************************)
Types == {"L", "M", "R"}
NoEntries == [g \in Glyphs |-> "N"]
NoCache == [exists |-> FALSE, type_by_glyph_id |-> NoEntries]
CacheObjects ==
    {NoCache} \cup {[exists |-> TRUE, type_by_glyph_id |-> f] :
                        f \in [Glyphs -> Types \cup {"N"}]}

\* The caches the groups that never read the cache are called with: no
\* cache object, or one that has every glyph in one class.
GroupCaches ==
    {NoCache} \cup
    {[exists |-> TRUE, type_by_glyph_id |-> [g \in Glyphs |-> type]] :
        type \in Types}

\* GlyphTypeCache.type_from_glyph_id
type_from_glyph_id(c, glyph_id) == c.type_by_glyph_id[glyph_id]

\* GlyphTypeCache.add_to_trio: the cached glyphs go to the trio's slot
\* of their type, the others are returned as not_cached.
add_to_trio(c, t, glyphs) ==
    [trio |-> [t EXCEPT
        !.left = t.left \cup {g \in glyphs : type_from_glyph_id(c, g) = "L"},
        !.middle = t.middle \cup {g \in glyphs : type_from_glyph_id(c, g) = "M"},
        !.right = t.right \cup {g \in glyphs : type_from_glyph_id(c, g) = "R"}],
     not_cached |-> {g \in glyphs : type_from_glyph_id(c, g) = "N"}]

\* GlyphSetTrio.add_from_cache: without a cache object the glyphs come
\* back as they are and the trio is untouched.
add_from_cache_mutant(c, t, glyphs) == [trio |-> t, not_cached |-> glyphs]

add_from_cache(c, t, glyphs) ==
    IF ~c.exists THEN [trio |-> t, not_cached |-> glyphs]
    ELSE add_to_trio(c, t, glyphs)

(***************************************************************************)
(* The codepoint-group classifiers.  font is [is_vertical, gsub_scripts,   *)
(* gpos_scripts, ...]; config is [language, is_colon_semicolon_middle,     *)
(* cjk_period_comma] (cjk_period_comma: whether that text is non-empty);   *)
(* p holds the sets the shaping probes return, by probe.                   *)
(***************************************************************************)

\* get_opening_closing: closing -> left, opening -> right, cjk_middle ->
\* middle; in vertical flow the glyphs the horizontal font produces for
\* the opening and closing code points leave left and right.
opening_closing_vertical_mutant(t, horizontal) ==
    [t EXCEPT !.left = t.left \ horizontal]

opening_closing_vertical(t, horizontal) ==
    [t EXCEPT !.left = t.left \ horizontal, !.right = t.right \ horizontal]

get_opening_closing(font, config, p) ==
    LET shaped == GlyphSetTrio(p.closing, p.opening, p.middle)
        result == IF font.is_vertical
                  THEN opening_closing_vertical(shaped, p.horizontal)
                  ELSE shaped
    IN  IF glyphs_are_disjoint(result) THEN Returns(result) ELSE AssertionFails

\* get_period_comma, line 151: the languages that keep the ZHT set.
period_comma_is_zht_mutant(language) == language = "ZHT"

period_comma_is_zht(language) == language = "ZHT" \/ language = "ZHH"

\* get_period_comma, line 156: Japanese glyphs are left, ZHT glyphs middle.
period_comma_result_mutant(ja, zht) == GlyphSetTrio(zht, {}, ja)

period_comma_result(ja, zht) == GlyphSetTrio(ja, {}, zht)

get_period_comma(font, config, p) ==
    IF ~config.cjk_period_comma THEN ReturnsNone
    ELSE IF p.zhs # p.ja \/ p.kor # p.ja THEN AssertionFails
    ELSE IF p.ja = p.zht /\ config.language = "None"
    THEN raise_require_language(font)
    ELSE
      LET same == p.ja = p.zht
          ja == IF same /\ period_comma_is_zht(config.language)
                THEN {} ELSE p.ja
          zht == IF same /\ ~period_comma_is_zht(config.language)
                 THEN {} ELSE p.zht
          result == period_comma_result(ja, zht)
      IN  IF ja \cap zht # {} THEN AssertionFails
          ELSE IF glyphs_are_disjoint(result) THEN Returns(result)
          ELSE AssertionFails

\* get_colon_semicolon, lines 196-212: what follows the choice of ja and
\* zhs.  result holds what add_from_cache has placed so far.
colon_semicolon_place_mutant(font, config, result, ja, zhs, p) ==
    IF ja \cap zhs # {} THEN AssertionFails
    ELSE IF font.is_vertical THEN Returns(result)
    ELSE Returns([result EXCEPT !.middle = result.middle \cup zhs,
                                !.left = result.left \cup ja])

colon_semicolon_place(font, config, result, ja, zhs, p) ==
    IF ja \cap zhs # {} THEN AssertionFails
    ELSE IF font.is_vertical
    THEN IF config.language = "None" \/ config.language = "JAN"
         THEN Returns([result EXCEPT
                        !.middle = result.middle \cup (ja \ p.ja_horizontal)])
         ELSE Returns(result)
    ELSE LET placed == [result EXCEPT !.middle = result.middle \cup ja,
                                      !.left = result.left \cup zhs]
         IN  IF glyphs_are_disjoint(placed) THEN Returns(placed)
             ELSE AssertionFails

\* get_colon_semicolon, lines 166-185: the two-probe path.  c is the cache
\* object GlyphTypeCache.get(font) resolves to.
colon_semicolon_probe(font, config, c, p) ==
    IF ~font.is_vertical /\ (p.zht # p.ja \/ p.kor # p.ja) THEN AssertionFails
    ELSE
      LET from_ja == add_from_cache(c, EmptyTrio, p.ja)
          from_zhs == add_from_cache(c, from_ja.trio, p.zhs)
          result == from_zhs.trio
          ja == from_ja.not_cached
          zhs == from_zhs.not_cached
      IN  IF ja = {} /\ zhs = {} THEN Returns(result)
          ELSE IF ja = zhs /\ config.language = "None"
          THEN raise_require_language(font)
          ELSE IF ja = zhs /\ config.language = "ZHS"
          THEN colon_semicolon_place(font, config, result, {}, zhs, p)
          ELSE IF ja = zhs
          THEN colon_semicolon_place(font, config, result, ja, {}, p)
          ELSE colon_semicolon_place(font, config, result, ja, zhs, p)

get_colon_semicolon_mutant(font, config, c, p) ==
    IF config.is_colon_semicolon_middle = "None"
    THEN colon_semicolon_probe(font, config, c, p)
    ELSE IF config.is_colon_semicolon_middle = "False"
    THEN colon_semicolon_place(font, config, EmptyTrio, p.glyphs, {}, p)
    ELSE colon_semicolon_place(font, config, EmptyTrio, {}, p.glyphs, p)

get_colon_semicolon(font, config, c, p) ==
    IF config.is_colon_semicolon_middle = "None"
    THEN colon_semicolon_probe(font, config, c, p)
    ELSE IF config.is_colon_semicolon_middle = "True"
    THEN colon_semicolon_place(font, config, EmptyTrio, p.glyphs, {}, p)
    ELSE colon_semicolon_place(font, config, EmptyTrio, {}, p.glyphs, p)

\* get_exclam_question: nothing in vertical flow; the ZHS glyphs are left.
get_exclam_question_mutant(font, config, p) ==
    IF font.is_vertical THEN ReturnsNone
    ELSE IF p.zht # p.ja \/ p.kor # p.ja THEN AssertionFails
    ELSE IF p.ja = p.zhs /\ config.language = "None"
    THEN raise_require_language(font)
    ELSE
      LET same == p.ja = p.zhs
          ja == IF same /\ config.language = "ZHS" THEN {} ELSE p.ja
          zhs == IF same /\ config.language # "ZHS" THEN {} ELSE p.zhs
          result == GlyphSetTrio({}, {}, zhs)
      IN  IF ja \cap zhs # {} THEN AssertionFails
          ELSE IF glyphs_are_disjoint(result) THEN Returns(result)
          ELSE AssertionFails

get_exclam_question(font, config, p) ==
    IF font.is_vertical THEN ReturnsNone
    ELSE IF p.zht # p.ja \/ p.kor # p.ja THEN AssertionFails
    ELSE IF p.ja = p.zhs /\ config.language = "None"
    THEN raise_require_language(font)
    ELSE
      LET same == p.ja = p.zhs
          ja == IF same /\ config.language = "ZHS" THEN {} ELSE p.ja
          zhs == IF same /\ config.language # "ZHS" THEN {} ELSE p.zhs
          result == GlyphSetTrio(zhs, {}, {})
      IN  IF ja \cap zhs # {} THEN AssertionFails
          ELSE IF glyphs_are_disjoint(result) THEN Returns(result)
          ELSE AssertionFails

(***************************************************************************)
(* The probes a classifier issues (its calls of _shape), by name.          *)
(***************************************************************************)
\* get_opening_closing, lines 114-123.
opening_closing_shaped(font) ==
    {"closing", "opening", "middle"}
    \cup (IF font.is_vertical THEN {"horizontal"} ELSE {})

\* get_period_comma, lines 135-143.
period_comma_shaped(config) ==
    IF config.cjk_period_comma THEN {"ja", "zht", "zhs", "kor"} ELSE {}

\* get_colon_semicolon, lines 202-205: the probe of the horizontal font,
\* issued in vertical flow when no language or JAN is declared.
colon_semicolon_shaped_vertical(font, config) ==
    IF font.is_vertical /\ config.language \in {"None", "JAN"}
    THEN {"ja_horizontal"} ELSE {}

\* get_colon_semicolon: the two-probe path issues its probes, and the
\* probe of the horizontal font when line 197 is reached; the path of the
\* explicit flag issues one probe and always reaches line 197.
colon_semicolon_shaped(font, config, c, p) ==
    IF config.is_colon_semicolon_middle # "None"
    THEN {"glyphs"} \cup colon_semicolon_shaped_vertical(font, config)
    ELSE
      LET debug == IF font.is_vertical THEN {} ELSE {"zht", "kor"}
          asserted == font.is_vertical \/ (p.zht = p.ja /\ p.kor = p.ja)
          from_ja == add_from_cache(c, EmptyTrio, p.ja)
          from_zhs == add_from_cache(c, from_ja.trio, p.zhs)
          ja == from_ja.not_cached
          zhs == from_zhs.not_cached
          placed == /\ asserted
                    /\ ~(ja = {} /\ zhs = {})
                    /\ ~(ja = zhs /\ config.language = "None")
                    /\ (ja = zhs \/ ja \cap zhs = {})
      IN  {"ja", "zhs"} \cup debug
          \cup (IF placed THEN colon_semicolon_shaped_vertical(font, config)
                ELSE {})

\* get_exclam_question, lines 216-226.
exclam_question_shaped(font) ==
    IF font.is_vertical THEN {} ELSE {"ja", "zhs", "zht", "kor"}

(***************************************************************************)
(* Inputs of the classifiers.                                              *)
(***************************************************************************)
\* Script lists as Font.script_and_langsys_tags_for_table reads them.
NoScripts == <<>>
DfltScripts == <<[tag |-> "DFLT", langsys |-> <<>>]>>
HaniScripts == <<[tag |-> "DFLT", langsys |-> <<>>],
                 [tag |-> "hani", langsys |-> <<"JAN", "ZHS">>]>>

\* The fonts a classifier is called with: horizontal or vertical, with or
\* without GSUB and GPOS script lists.
GroupFonts ==
    {[is_vertical |-> v, gsub_scripts |-> s[1], gpos_scripts |-> s[2]] :
        v \in BOOLEAN,
        s \in {<<NoScripts, NoScripts>>, <<HaniScripts, NoScripts>>,
               <<HaniScripts, DfltScripts>>}}

Configs ==
    [language : Languages, is_colon_semicolon_middle : Flags,
     cjk_period_comma : BOOLEAN]

\* The probes of one call, by name; a probe the call does not issue is {}.
NoProbes ==
    [closing |-> {}, opening |-> {}, middle |-> {}, horizontal |-> {},
     ja |-> {}, zhs |-> {}, zht |-> {}, kor |-> {}, glyphs |-> {},
     ja_horizontal |-> {}]

\* The configurations that differ in the fields a classifier reads; the
\* fields it does not read are as Config.default has them.
ConfigsReading(language, flag, period_comma) ==
    {c \in Configs :
        /\ language \/ c.language = "None"
        /\ flag \/ c.is_colon_semicolon_middle = "None"
        /\ period_comma \/ c.cjk_period_comma}

\* A set of probes drawn only when the code issues them.
ProbeIf(issued) == IF issued THEN GlyphSets ELSE {{}}

NoCall ==
    [op |-> "none", font |-> CHOOSE f \in GroupFonts : TRUE,
     config |-> CHOOSE c \in Configs : TRUE, cache |-> NoCache,
     p |-> NoProbes, shaped |-> {}, out |-> ReturnsNone]

\* The variables a specification does not use stay as they are here.
IdleClassify ==
    /\ trio = [left |-> {}, right |-> {}, middle |-> {}, root_font |-> 0]
    /\ cache = <<>>
    /\ pass = [pc |-> "idle"]
IdleSynth ==
    /\ spacing = <<>>
    /\ table = <<>>
    /\ synth = [op |-> "none"]
IdleBuild == build = [pc |-> "none"]

(***************************************************************************)
(* GlyphTypeCache writes.                                                  *)
(***************************************************************************)
\* GlyphTypeCache.add_glyphs: glyph by glyph, the assertion first and the
\* write after it.  `for glyph_id in glyphs` visits a set in the order of
\* its hash table, which follows from how the set was built and not from
\* its value: when the assertion refuses some glyph, the glyphs visited
\* and written before it are any of those it does not refuse.  The set of
\* the outcomes [ok, types]: ok is FALSE when the assertion failed, and
\* types holds what was written before it did.
cache_add_glyphs_mutant(types, glyphs, value) ==
    {[ok |-> TRUE,
      types |-> [g \in DOMAIN types |->
                    IF g \in glyphs THEN value ELSE types[g]]]}

cache_add_glyphs(types, glyphs, value) ==
    LET refused == {g \in glyphs : types[g] # "N" /\ types[g] # value}
    IN  IF refused = {}
        THEN {[ok |-> TRUE,
               types |-> [g \in DOMAIN types |->
                             IF g \in glyphs THEN value ELSE types[g]]]}
        ELSE {[ok |-> FALSE,
               types |-> [g \in DOMAIN types |->
                             IF g \in written THEN value ELSE types[g]]] :
                 written \in SUBSET (glyphs \ refused)}

\* GlyphTypeCache.add_trio: left as "L", then middle as "M", then right
\* as "R"; a failed assertion ends it.
add_trio(types, t) ==
    UNION {IF ~l.ok THEN {l}
           ELSE UNION {IF ~m.ok THEN {m}
                       ELSE cache_add_glyphs(m.types, t.right, "R") :
                          m \in cache_add_glyphs(l.types, t.middle, "M")} :
              l \in cache_add_glyphs(types, t.left, "L")}

\* GlyphSetTrio.add_to_cache: GlyphTypeCache.get(font, create=True), which
\* makes the cache object when there is none, then add_trio.
add_to_cache(c, t) ==
    {[ok |-> added.ok,
      cache |-> [exists |-> TRUE, type_by_glyph_id |-> added.types]] :
        added \in add_trio(c.type_by_glyph_id, t)}

(***************************************************************************)
(* GlyphSetTrio.add_glyphs, one pass after the other.  A behaviour follows  *)
(* the trios of one flow: EastAsianSpacing.add_glyphs passes horizontal    *)
(* fonts to spacing.horizontal and their vertical fonts to                 *)
(* spacing.vertical, and the two flows share neither trio nor cache.       *)
(***************************************************************************)
MaxRoot == 1
Roots == 1..MaxRoot

\* The fonts add_glyphs is called with, by what it reads of them: the root
\* font (root_or_self) and the flow.  Faces of one root differ in what the
\* probes return, which every pass draws anew.
ClassifyFonts ==
    {[root |-> r, is_vertical |-> v, gsub_scripts |-> HaniScripts,
      gpos_scripts |-> NoScripts] : r \in Roots, v \in BOOLEAN}

\* Font.root_or_self
root_or_self(font) == font.root

\* GlyphTypeCache.get: the object that holds the cache is the font itself
\* or its parent collection; the parent of a vertical face is the vertical
\* font of the root, another object than the root.
CacheHolders == Roots \X BOOLEAN
cache_holder_mutant(font) == <<font.root, FALSE>>

cache_holder(font) == <<font.root, font.is_vertical>>

\* The classifiers in the order asyncio.gather is given them, which is the
\* order of its result list (lines 78-81).
Groups == <<"opening_closing", "period_comma", "colon_semicolon",
            "exclam_question">>

NewTrioObject == [left |-> {}, right |-> {}, middle |-> {}, root_font |-> 0]

\* No pass in flight.  is_vertical is the flow of the fonts the trio is
\* used with.
IdlePass(is_vertical) ==
    [pc |-> "idle", font |-> CHOOSE f \in ClassifyFonts : ~f.is_vertical,
     config |-> CHOOSE c \in Configs : TRUE, done |-> {},
     results |-> EmptyTrio, is_vertical |-> is_vertical, error |-> "none"]

\* The pass has raised: the exception leaves add_glyphs, and nothing of
\* the call is left but what it wrote to the trio and the cache.
Raised(error) ==
    [IdlePass(pass.is_vertical) EXCEPT !.pc = "raised", !.error = error]

\* GlyphSetTrio.assert_font: TRUE when the assertion holds.
assert_font_mutant(t, font) == TRUE

assert_font(t, font) == t.root_font = 0 \/ t.root_font = root_or_self(font)

\* add_glyphs, lines 72-73, for a font and a configuration: the pass is
\* bound to the font and awaits Shaper.ensure_fullwidth_advance.
AwaitingAdvance(font, config) ==
    [pc |-> "advance", font |-> font, config |-> config, done |-> {},
     results |-> EmptyTrio, is_vertical |-> font.is_vertical,
     error |-> "none"]

\* add_glyphs, lines 72-73: assert_font binds the trio to the root of the
\* font, or fails; then the call awaits the full-width advance.  The
\* callers in this repository await one add_glyphs before they start the
\* next (EastAsianSpacing.add_glyphs, Builder.build and build_collection),
\* so one pass is in flight at a time.
BeginPass ==
    /\ pass.pc = "idle"
    /\ \E font \in ClassifyFonts,
          config \in ConfigsReading(TRUE, TRUE, FALSE) :
          /\ font.is_vertical = pass.is_vertical
          /\ IF ~assert_font(trio, font)
             THEN /\ pass' = Raised("assert_font")
                  /\ UNCHANGED trio
             ELSE /\ trio' = [trio EXCEPT !.root_font = root_or_self(font)]
                  /\ pass' = AwaitingAdvance(font, config)
    /\ UNCHANGED <<call, cache, spacing, table, synth, build>>

\* add_glyphs, lines 73-81: the await of line 73 returns.  The call
\* returns at once when the font has no full-width advance or the
\* configuration skips the font (config.for_font); otherwise the four
\* classifiers are started.
EnsureFullwidthAdvance ==
    /\ pass.pc = "advance"
    /\ \E advance \in BOOLEAN, skipped \in BOOLEAN :
          pass' = IF ~advance \/ skipped
                  THEN IdlePass(pass.is_vertical)
                  ELSE [pass EXCEPT !.pc = "gather"]
    /\ UNCHANGED <<call, trio, cache, spacing, table, synth, build>>

\* The gather of lines 78-81.  The classifiers share no state and write
\* nothing to the trio or the cache; they end in any order.  pass.done
\* holds the classifiers that have ended.  The first one that raises, in
\* time, ends the pass with its exception; the outcome of one that
\* returns is kept for the loop of lines 82-83 (unite is a per-slot
\* union, so the loop over the result list makes exactly the union kept
\* in pass.results), and None adds nothing.
Gathering(group) ==
    /\ pass.pc = "gather"
    /\ group \notin pass.done

Gathered_mutant(group, out) ==
    IF out.kind = "raise" THEN Raised(out.error)
    ELSE [pass EXCEPT !.done = @ \cup {group},
                      !.results = IF out.kind = "None" THEN @
                                  ELSE out.trio]

Gathered(group, out) ==
    IF out.kind = "raise" THEN Raised(out.error)
    ELSE [pass EXCEPT !.done = @ \cup {group},
                      !.results = IF out.kind = "None" THEN @
                                  ELSE unite(@, out.trio)]

\* What the probes of a classifier may return in a pass.  The probes that
\* only feed the debug-build assertions (they must equal the Japanese
\* probe) either agree with it or return its complement.
DebugProbe(ja, issued) == IF issued THEN {ja, Glyphs \ ja} ELSE {{}}

OpeningClosingProbes(font) ==
    {[NoProbes EXCEPT !.closing = closing, !.opening = opening,
                      !.middle = middle, !.horizontal = horizontal] :
        closing \in GlyphSets, opening \in GlyphSets, middle \in GlyphSets,
        horizontal \in ProbeIf(font.is_vertical)}

PeriodCommaProbes(font, config) ==
    UNION {{[NoProbes EXCEPT !.ja = ja, !.zht = zht, !.zhs = zhs, !.kor = kor] :
              zht \in ProbeIf(config.cjk_period_comma),
              zhs \in DebugProbe(ja, config.cjk_period_comma),
              kor \in DebugProbe(ja, config.cjk_period_comma)} :
           ja \in ProbeIf(config.cjk_period_comma)}

ColonSemicolonProbes(font, config) ==
    LET two == config.is_colon_semicolon_middle = "None"
        debug == two /\ ~font.is_vertical
        jan == font.is_vertical /\ config.language \in {"None", "JAN"}
    IN  UNION {{[NoProbes EXCEPT !.ja = ja, !.zhs = zhs, !.zht = zht,
                                 !.kor = kor, !.glyphs = glyphs,
                                 !.ja_horizontal = ja_horizontal] :
                  zhs \in ProbeIf(two), zht \in DebugProbe(ja, debug),
                  kor \in DebugProbe(ja, debug), glyphs \in ProbeIf(~two),
                  ja_horizontal \in ProbeIf(jan)} :
               ja \in ProbeIf(two)}

ExclamQuestionProbes(font) ==
    UNION {{[NoProbes EXCEPT !.ja = ja, !.zhs = zhs, !.zht = zht, !.kor = kor] :
              zhs \in ProbeIf(~font.is_vertical),
              zht \in DebugProbe(ja, ~font.is_vertical),
              kor \in DebugProbe(ja, ~font.is_vertical)} :
           ja \in ProbeIf(~font.is_vertical)}

OpeningClosingEnds ==
    /\ Gathering("opening_closing")
    /\ \E out \in {get_opening_closing(pass.font, pass.config, p) :
                    p \in OpeningClosingProbes(pass.font)} :
          pass' = Gathered("opening_closing", out)
    /\ UNCHANGED <<call, trio, cache, spacing, table, synth, build>>

PeriodCommaEnds ==
    /\ Gathering("period_comma")
    /\ \E out \in {get_period_comma(pass.font, pass.config, p) :
                    p \in PeriodCommaProbes(pass.font, pass.config)} :
          pass' = Gathered("period_comma", out)
    /\ UNCHANGED <<call, trio, cache, spacing, table, synth, build>>

ColonSemicolonEnds ==
    /\ Gathering("colon_semicolon")
    /\ \E out \in {get_colon_semicolon(pass.font, pass.config,
                                       cache[cache_holder(pass.font)], p) :
                    p \in ColonSemicolonProbes(pass.font, pass.config)} :
          pass' = Gathered("colon_semicolon", out)
    /\ UNCHANGED <<call, trio, cache, spacing, table, synth, build>>

ExclamQuestionEnds ==
    /\ Gathering("exclam_question")
    /\ \E out \in {get_exclam_question(pass.font, pass.config, p) :
                    p \in ExclamQuestionProbes(pass.font)} :
          pass' = Gathered("exclam_question", out)
    /\ UNCHANGED <<call, trio, cache, spacing, table, synth, build>>

\* add_glyphs, lines 82-85: the results are united into the trio, the
\* trio is added to the cache, and the trio is asserted disjoint.
add_glyphs_merge_mutant(self, results, c) ==
    {[trio |-> unite(self, results), cache |-> c, error |-> "none"]}

add_glyphs_merge(self, results, c) ==
    LET united == unite(self, results)
    IN  {[trio |-> united, cache |-> added.cache,
          error |-> IF ~added.ok THEN "cache assert"
                    ELSE IF ~glyphs_are_disjoint(united)
                    THEN "disjoint assert"
                    ELSE "none"] : added \in add_to_cache(c, united)}

\* The await of the gather returns (lines 78-81): every classifier has
\* ended.
AllGathered_mutant == pass.pc = "gather"

AllGathered ==
    /\ pass.pc = "gather"
    /\ pass.done = {Groups[k] : k \in 1..Len(Groups)}

EndPass ==
    /\ AllGathered
    /\ LET holder == cache_holder(pass.font)
       IN  \E merged \in add_glyphs_merge(trio, pass.results, cache[holder]) :
              /\ trio' = merged.trio
              /\ cache' = [cache EXCEPT ![holder] = merged.cache]
              /\ pass' = IF merged.error = "none"
                         THEN IdlePass(pass.is_vertical)
                         ELSE Raised(merged.error)
    /\ UNCHANGED <<call, spacing, table, synth, build>>

\* GlyphSetTrio.__init__: the coordinator starts the trio of another
\* EastAsianSpacing; the caches stay with their fonts.
NewTrio ==
    /\ pass.pc = "idle"
    /\ trio # NewTrioObject
    /\ trio' = NewTrioObject
    /\ UNCHANGED <<call, cache, pass, spacing, table, synth, build>>

Init ==
    /\ call = NoCall
    /\ trio = NewTrioObject
    /\ cache = [h \in CacheHolders |-> NoCache]
    /\ \E is_vertical \in BOOLEAN : pass = IdlePass(is_vertical)
    /\ IdleSynth
    /\ IdleBuild

Next ==
    \/ BeginPass
    \/ EnsureFullwidthAdvance
    \/ OpeningClosingEnds
    \/ PeriodCommaEnds
    \/ ColonSemicolonEnds
    \/ ExclamQuestionEnds
    \/ EndPass
    \/ NewTrio

Spec == Init /\ [][Next]_vars

(***************************************************************************)
(* Synthesis: build_lookup, add_to_table, EastAsianSpacing.                *)
(*                                                                         *)
(* A GPOS table is [exists, lookups, features, scripts]: exists is FALSE   *)
(* while the font has no GPOS table; lookups is LookupList.Lookup,         *)
(* features is FeatureList.FeatureRecord (each [FeatureTag,                *)
(* LookupListIndex, LookupCount]) and scripts is ScriptList.ScriptRecord   *)
(* (each [ScriptTag, DefaultLangSys, LangSysRecord], DefaultLangSys being  *)
(* [present, FeatureIndex] and a LangSysRecord [LangSysTag, FeatureIndex]).*)
(***************************************************************************)

\* Python's `a and b` and `a or b` on sets, and the truth of a set.
PyAnd(a, b) == IF a = {} THEN a ELSE b
PyOr(a, b) == IF a # {} THEN a ELSE b
Truthy(a) == a # {}

\* GlyphSetTrio.can_add_to_table: `self.left and self.right`.
can_add_to_table_mutant(t) == PyAnd(t.left \cup t.middle, t.right)

can_add_to_table(t) == PyAnd(t.left, t.right)

\* EastAsianSpacing.can_add_to_font
can_add_to_font(sp) ==
    PyOr(can_add_to_table(sp.horizontal), can_add_to_table(sp.vertical))

\* sorted(glyphs): the least glyph ID first.
Min(S) == CHOOSE x \in S : \A y \in S : x <= y

RECURSIVE sorted(_)
sorted(glyphs) ==
    IF glyphs = {} THEN <<>>
    ELSE <<Min(glyphs)>> \o sorted(glyphs \ {Min(glyphs)})

\* Font.glyph_names: the name of each glyph ID, in the order given.
glyph_names(glyph_ids) ==
    [i \in 1..Len(glyph_ids) |-> <<"glyph", glyph_ids[i]>>]

\* Font.fullwidth_advance of a font the shaper has found no advance for:
\* None.
NoAdvance == 0

\* build_lookup, line 341: math.floor(em / 2).
half_em_of_mutant(em) == (em + 1) \div 2

half_em_of(em) == em \div 2

\* buildValue: a value record, as the set of its fields with their values.
buildValue(fields) == fields

\* build_lookup, lines 343-354.
left_half_value(font, half_em) ==
    IF font.is_vertical THEN buildValue({<<"YAdvance", 0 - half_em>>})
    ELSE buildValue({<<"XAdvance", 0 - half_em>>})

right_half_value(font, half_em) ==
    IF font.is_vertical
    THEN buildValue({<<"YPlacement", half_em>>, <<"YAdvance", 0 - half_em>>})
    ELSE buildValue({<<"XPlacement", 0 - half_em>>,
                     <<"XAdvance", 0 - half_em>>})

\* The lookups build_lookup builds.  A lookup that the table had before
\* is "Existing".
NoValue == {}
Lookup(type) ==
    [type |-> type, glyphs1 |-> <<>>, value1 |-> NoValue, glyphs2 |-> <<>>,
     value2 |-> NoValue, mapping |-> {}, prefix |-> <<>>, glyphs |-> <<>>,
     suffix |-> <<>>, lookups |-> <<>>]

ExistingLookup == Lookup("Existing")

\* PairPosBuilder.addClassPair(None, glyphs1, value1, glyphs2, value2)
PairPosLookup(glyphs1, value1, glyphs2, value2) ==
    [Lookup("PairPos") EXCEPT !.glyphs1 = glyphs1, !.value1 = value1,
                              !.glyphs2 = glyphs2, !.value2 = value2]

\* SinglePosBuilder with mapping[glyph_name] = value for each glyph.
SinglePosLookup(glyphs, value) ==
    [Lookup("SinglePos") EXCEPT
        !.mapping = {<<glyphs[i], value>> : i \in 1..Len(glyphs)}]

\* ChainContextualRule(prefix, glyphs, suffix, lookups); a lookup it
\* invokes is named by its lookup_index.
ChainContextPosLookup_mutant(prefix, glyphs, suffix, lookups) ==
    [Lookup("ChainContextPos") EXCEPT !.prefix = suffix, !.glyphs = glyphs,
                                      !.suffix = prefix, !.lookups = lookups]

ChainContextPosLookup(prefix, glyphs, suffix, lookups) ==
    [Lookup("ChainContextPos") EXCEPT !.prefix = prefix, !.glyphs = glyphs,
                                      !.suffix = suffix, !.lookups = lookups]

\* build_lookup, lines 355-388, from the half em on: the three lookups are
\* appended, and lookup_indices gets the index of the first and of the
\* third (the second only has its lookup_index set, for the rule).  With
\* no advance, em / 2 of line 341 raises TypeError; a half em of 0 fails
\* the assertion of line 342.  Each builder returns None when it has no
\* subtable to build, and `assert lookup` then fails: the pair builder
\* when the first class has no glyph (line 363, nothing appended yet), the
\* single builder when no glyph is mapped (line 375, after the pair lookup
\* was appended to the list at line 365).  The rule of the chained context
\* lookup is always built.
build_lookup_indices_mutant(first, second, third) == <<first, second, third>>

build_lookup_indices(first, second, third) == <<first, third>>

build_lookup_mutant(t, font, em, lookups) ==
    LET left == glyph_names(sorted(t.left))
        right == glyph_names(sorted(t.right))
        middle == glyph_names(sorted(t.middle))
        half_em == half_em_of(em)
        pair == PairPosLookup(left, left_half_value(font, half_em),
                              left \o middle \o right, NoValue)
        single == SinglePosLookup(right, right_half_value(font, half_em))
        chain == ChainContextPosLookup(<<middle \o right>>, <<right>>, <<>>,
                                       <<<<1>>>>)
    IN  IF em = NoAdvance
        THEN [ok |-> FALSE, error |-> "TypeError: NoneType / int",
              lookups |-> lookups,
              lookup_indices |-> <<>>]
        ELSE IF ~(half_em > 0)
        THEN [ok |-> FALSE, error |-> "assert half_em", lookups |-> lookups,
              lookup_indices |-> <<>>]
        ELSE IF left = <<>>
        THEN [ok |-> FALSE, error |-> "assert lookup", lookups |-> lookups,
              lookup_indices |-> <<>>]
        ELSE IF right = <<>>
        THEN [ok |-> FALSE, error |-> "assert lookup",
              lookups |-> <<pair>> \o lookups,
              lookup_indices |-> <<>>]
        ELSE [ok |-> TRUE, error |-> "none",
              lookups |-> <<pair, single, chain>> \o lookups,
              lookup_indices |-> build_lookup_indices(0, 1, 2)]

build_lookup(t, font, em, lookups) ==
    LET left == glyph_names(sorted(t.left))
        right == glyph_names(sorted(t.right))
        middle == glyph_names(sorted(t.middle))
        half_em == half_em_of(em)
        pair == PairPosLookup(left, left_half_value(font, half_em),
                              left \o middle \o right, NoValue)
        single == SinglePosLookup(right, right_half_value(font, half_em))
        single_index == Len(lookups) + 1
        chain == ChainContextPosLookup(<<middle \o right>>, <<right>>, <<>>,
                                       <<<<single_index>>>>)
    IN  IF em = NoAdvance
        THEN [ok |-> FALSE, error |-> "TypeError: NoneType / int",
              lookups |-> lookups,
              lookup_indices |-> <<>>]
        ELSE IF ~(half_em > 0)
        THEN [ok |-> FALSE, error |-> "assert half_em", lookups |-> lookups,
              lookup_indices |-> <<>>]
        ELSE IF left = <<>>
        THEN [ok |-> FALSE, error |-> "assert lookup", lookups |-> lookups,
              lookup_indices |-> <<>>]
        ELSE IF right = <<>>
        THEN [ok |-> FALSE, error |-> "assert lookup",
              lookups |-> Append(lookups, pair),
              lookup_indices |-> <<>>]
        ELSE [ok |-> TRUE, error |-> "none",
              lookups |-> lookups \o <<pair, single, chain>>,
              lookup_indices |->
                  build_lookup_indices(Len(lookups), Len(lookups) + 1,
                                       Len(lookups) + 2)]

\* Font._has_ottable_feature
has_ottable_feature(tbl, feature_tag) ==
    \E i \in 1..Len(tbl.features) : tbl.features[i].FeatureTag = feature_tag

\* add_to_table, lines 316-329: the feature index is appended to the
\* DefaultLangSys of every script that has one and to every LangSysRecord.
add_feature_to_scripts_mutant(scripts, feature_index) ==
    [i \in 1..Len(scripts) |->
        [scripts[i] EXCEPT
            !.DefaultLangSys =
                IF @.present
                THEN [@ EXCEPT !.FeatureIndex = Append(@, feature_index)]
                ELSE @]]

add_feature_to_scripts(scripts, feature_index) ==
    [i \in 1..Len(scripts) |->
        [scripts[i] EXCEPT
            !.DefaultLangSys =
                IF @.present
                THEN [@ EXCEPT !.FeatureIndex = Append(@, feature_index)]
                ELSE @,
            !.LangSysRecord =
                [j \in 1..Len(@) |->
                    [@[j] EXCEPT !.FeatureIndex = Append(@, feature_index)]]]]

\* add_to_table, lines 298-301: the first assertion that fails, "none"
\* when all four hold.
add_to_table_asserts_mutant(t, font, tbl, feature_tag) ==
    IF ~assert_font(t, font) THEN "assert_font"
    ELSE IF ~glyphs_are_disjoint(t) THEN "disjoint assert"
    ELSE IF has_ottable_feature(tbl, feature_tag) THEN "assert feature"
    ELSE "none"

add_to_table_asserts(t, font, tbl, feature_tag) ==
    IF ~Truthy(can_add_to_table(t)) THEN "assert can_add_to_table"
    ELSE IF ~assert_font(t, font) THEN "assert_font"
    ELSE IF ~glyphs_are_disjoint(t) THEN "disjoint assert"
    ELSE IF has_ottable_feature(tbl, feature_tag) THEN "assert feature"
    ELSE "none"

\* GlyphSetTrio.add_to_table.  [error, trio, table]: the assertions come
\* first (assert_font binds an unbound trio to the font's root), then
\* build_lookup (whose own assertion on the half em precedes its first
\* append; what it appended before another of its assertions failed stays
\* in the list), then the feature record and the scripts.  Indices count
\* from 0, as in the code.
add_to_table(t, font, em, tbl, feature_tag) ==
    LET failed == add_to_table_asserts(t, font, tbl, feature_tag)
        bound == IF failed \in {"assert can_add_to_table", "assert_font"}
                 THEN t
                 ELSE [t EXCEPT !.root_font = root_or_self(font)]
        built == build_lookup(bound, font, em, tbl.lookups)
        feature_index == Len(tbl.features)
        feature_record ==
            [FeatureTag |-> feature_tag,
             LookupListIndex |-> built.lookup_indices,
             LookupCount |-> Len(built.lookup_indices)]
    IN  IF failed # "none"
        THEN [error |-> failed, trio |-> bound, table |-> tbl]
        ELSE IF ~built.ok
        THEN [error |-> built.error, trio |-> bound,
              table |-> [tbl EXCEPT !.lookups = built.lookups]]
        ELSE [error |-> "none", trio |-> bound,
              table |-> [tbl EXCEPT
                  !.lookups = built.lookups,
                  !.features = Append(@, feature_record),
                  !.scripts = add_feature_to_scripts(@, feature_index)]]

\* Font.create_script_record and Font.add_gpos_table: a table with the
\* DFLT script, whose DefaultLangSys has no feature, and nothing else.
create_script_record ==
    [ScriptTag |-> "DFLT",
     DefaultLangSys |-> [present |-> TRUE, FeatureIndex |-> <<>>],
     LangSysRecord |-> <<>>]

add_gpos_table ==
    [exists |-> TRUE, lookups |-> <<>>, features |-> <<>>,
     scripts |-> <<create_script_record>>]

\* Font.vertical_font of a horizontal font: None (has_vertical_font is
\* FALSE) or the vertical font, a font of the same root.
vertical_font(font) == [font EXCEPT !.is_vertical = TRUE]

\* EastAsianSpacing.add_to_font.  em_h and em_v are the fullwidth_advance
\* of the font and of its vertical font.  [error, spacing, table, called]:
\* called lists the feature tags add_to_table was called for.
add_to_font(sp, font, em_h, em_v, tbl) ==
    LET gpos == IF tbl.exists THEN tbl ELSE add_gpos_table
        call_h == Truthy(can_add_to_table(sp.horizontal))
        h == IF call_h
             THEN add_to_table(sp.horizontal, font, em_h, gpos, "chws")
             ELSE [error |-> "none", trio |-> sp.horizontal, table |-> gpos]
        call_v == font.has_vertical_font
                  /\ Truthy(can_add_to_table(sp.vertical))
        v == IF call_v
             THEN add_to_table(sp.vertical, vertical_font(font), em_v,
                               h.table, "vchw")
             ELSE [error |-> "none", trio |-> sp.vertical, table |-> h.table]
    IN  IF ~Truthy(can_add_to_font(sp))
        THEN [error |-> "assert can_add_to_font", spacing |-> sp,
              table |-> tbl, called |-> <<>>]
        ELSE IF font.is_vertical
        THEN [error |-> "assert not is_vertical", spacing |-> sp,
              table |-> tbl, called |-> <<>>]
        ELSE IF h.error # "none"
        THEN [error |-> h.error,
              spacing |-> [sp EXCEPT !.horizontal = h.trio],
              table |-> h.table, called |-> <<"chws">>]
        ELSE [error |-> v.error,
              spacing |-> [horizontal |-> h.trio, vertical |-> v.trio],
              table |-> v.table,
              called |-> (IF call_h THEN <<"chws">> ELSE <<>>)
                         \o (IF call_v THEN <<"vchw">> ELSE <<>>)]

(***************************************************************************)
(* Synthesis applied to every input (SpecSynth): one call per behaviour,   *)
(* EastAsianSpacing.add_to_font on the spacing of a sharing group, or      *)
(* GlyphSetTrio.add_to_table on a trio the caller built.                   *)
(***************************************************************************)

\* The fullwidth advances a font may have: none, the two of the unit
\* tests, and the smallest one, whose half is 0.
EmValues == {NoAdvance, 1, 999, 1000}

\* The tables a font may come with: no GPOS table, or one with up to
\* MaxLookups lookups, some features and some scripts.
MaxLookups == 1

NoTable ==
    [exists |-> FALSE, lookups |-> <<>>, features |-> <<>>, scripts |-> <<>>]

ExistingFeatures(tags, lookups) ==
    [i \in 1..Len(tags) |->
        [FeatureTag |-> tags[i],
         LookupListIndex |-> [j \in 1..lookups |-> j - 1],
         LookupCount |-> lookups]]

\* The feature indices a language system of the table lists already.
ExistingFeatureIndex(tags) == [i \in 1..Len(tags) |-> i - 1]

\* The feature lists and script lists the tables come with.
TableShapes ==
    {<<<<>>, "none">>, <<<<>>, "DFLT">>, <<<<"kern">>, "hani">>,
     <<<<"kern", "chws">>, "DFLT">>, <<<<"vchw">>, "hani">>}

ExistingScripts(shape, tags) ==
    LET dflt == [ScriptTag |-> "DFLT",
                 DefaultLangSys |->
                     [present |-> TRUE,
                      FeatureIndex |-> ExistingFeatureIndex(tags)],
                 LangSysRecord |-> <<>>]
        hani == [ScriptTag |-> "hani",
                 DefaultLangSys |-> [present |-> FALSE, FeatureIndex |-> <<>>],
                 LangSysRecord |->
                     <<[LangSysTag |-> "JAN",
                        FeatureIndex |-> ExistingFeatureIndex(tags)],
                       [LangSysTag |-> "ZHS", FeatureIndex |-> <<>>]>>]
    IN  IF shape = "none" THEN <<>>
        ELSE IF shape = "DFLT" THEN <<dflt>>
        ELSE <<dflt, hani>>

SynthTables ==
    {NoTable} \cup
    {[exists |-> TRUE,
      lookups |-> [i \in 1..n |-> ExistingLookup],
      features |-> ExistingFeatures(ts[1], n),
      scripts |-> ExistingScripts(ts[2], ts[1])] :
        n \in 0..MaxLookups, ts \in TableShapes}

\* The trios GlyphSetTrio.add_glyphs leaves are disjoint; a caller may
\* build any.
AllTrios ==
    {[left |-> l, right |-> r, middle |-> m, root_font |-> b] :
        l \in GlyphSets, r \in GlyphSets, m \in GlyphSets,
        b \in {0} \cup Roots}

DisjointTrios == {t \in AllTrios : glyphs_are_disjoint(t)}

\* The spacings add_to_font is called on.  Each trio is bound on its own,
\* by the first font it is used with (assert_font): add_glyphs binds the
\* horizontal trio, and the vertical one only when the font has a vertical
\* font (EastAsianSpacing.add_glyphs, lines 410-413); add_to_table binds
\* the trio it is called on.
Spacings == [horizontal : DisjointTrios, vertical : DisjointTrios]

\* EastAsianSpacing.__init__
NewSpacing == [horizontal |-> NewTrioObject, vertical |-> NewTrioObject]

\* The fonts add_to_font is given, faces of the first root: only a
\* horizontal font may have a vertical font.
SynthFonts ==
    {[root |-> 1, is_vertical |-> v, has_vertical_font |-> w] :
        v \in BOOLEAN, w \in BOOLEAN} \ 
    {[root |-> 1, is_vertical |-> TRUE, has_vertical_font |-> TRUE]}

NoSynth ==
    [op |-> "none", font |-> CHOOSE f \in SynthFonts : TRUE,
     trio |-> NewTrioObject, tag |-> "none", em_h |-> NoAdvance,
     em_v |-> NoAdvance, error |-> "none", called |-> <<>>, united |-> FALSE]

SynthInit ==
    /\ call = NoCall
    /\ IdleClassify
    /\ spacing \in Spacings
    /\ table \in SynthTables
    /\ synth = NoSynth
    /\ IdleBuild

\* EastAsianSpacing.unite: the trios of the other spacing are united into
\* the trios of this one, which keep their root fonts.  A GlyphSetTrio is
\* always true (it defines neither __bool__ nor __len__), so the vertical
\* trios are united whatever they hold.
EastAsianSpacing_unite(self, other) ==
    [horizontal |-> unite(self.horizontal, other.horizontal),
     vertical |-> unite(self.vertical, other.vertical)]

\* spacing.unite(other) with the spacing of another build, before the
\* spacing is added to a font; one such call in a behaviour.
UniteSpacing ==
    /\ synth.op = "none"
    /\ ~synth.united
    /\ \E other \in {sp \in Spacings : /\ sp.horizontal.root_font = 0
                                       /\ sp.vertical.root_font = 0} :
          spacing' = EastAsianSpacing_unite(spacing, other)
    /\ synth' = [synth EXCEPT !.united = TRUE]
    /\ UNCHANGED <<call, trio, cache, pass, table, build>>

\* spacing.add_to_font(font)
AddToFont ==
    /\ synth.op = "none"
    /\ \E font \in SynthFonts, em_h \in EmValues :
       \E em_v \in (IF font.has_vertical_font THEN EmValues
                   ELSE {NoAdvance}) :
          LET out == add_to_font(spacing, font, em_h, em_v, table)
          IN  /\ spacing' = out.spacing
              /\ table' = out.table
              /\ synth' = [NoSynth EXCEPT !.op = "add_to_font",
                                          !.font = font, !.em_h = em_h,
                                          !.em_v = em_v,
                                          !.error = out.error,
                                          !.called = out.called]
    /\ UNCHANGED <<call, trio, cache, pass, build>>

\* GlyphSetTrio(left, right, middle).add_to_table(font, table, feature_tag)
\* on a trio the caller built, with no spacing at work.
CallAddToTable ==
    /\ synth.op = "none"
    /\ spacing = NewSpacing
    /\ table.exists
    /\ \E t \in AllTrios,
          font \in {f \in SynthFonts : ~f.has_vertical_font},
          em \in EmValues,
          feature_tag \in {"chws", "vchw"} :
          LET out == add_to_table(t, font, em, table, feature_tag)
          IN  /\ table' = out.table
              /\ synth' = [NoSynth EXCEPT !.op = "add_to_table",
                                          !.font = font, !.trio = out.trio,
                                          !.tag = feature_tag,
                                          !.em_h = em, !.error = out.error,
                                          !.called = <<feature_tag>>]
    /\ UNCHANGED <<call, trio, cache, pass, spacing, build>>

SynthNext ==
    \/ UniteSpacing
    \/ AddToFont
    \/ CallAddToTable

SpecSynth == SynthInit /\ [][SynthNext]_vars

(***************************************************************************)
(* Claims about synthesis (SpecSynth).                                     *)
(***************************************************************************)
Usable(t) == t.left # {} /\ t.right # {}

SpacingUsable == Usable(spacing.horizontal) \/ Usable(spacing.vertical)

\* C3: can_add_to_font is truthy if and only if the horizontal trio has a
\* non-empty left and a non-empty right set, or the vertical trio has; the
\* middle sets never influence it; add_to_font refuses exactly when it is
\* not.
C3_CanAddToFontIffLeftAndRight ==
    /\ Truthy(can_add_to_font(spacing)) <=> SpacingUsable
    /\ synth.op = "none"
       => \A hm \in GlyphSets, vm \in GlyphSets :
             Truthy(can_add_to_font(
                 [spacing EXCEPT !.horizontal.middle = hm,
                                 !.vertical.middle = vm]))
             <=> Truthy(can_add_to_font(spacing))
    /\ synth.op = "add_to_font"
       => (synth.error = "assert can_add_to_font" <=> ~SpacingUsable)

C3_Witness ==
    /\ synth.op = "add_to_font"
    /\ synth.error = "none"
    /\ spacing.horizontal.left = {}
    /\ spacing.horizontal.middle # {}
    /\ spacing.horizontal.right # {}
    /\ Usable(spacing.vertical)
    /\ spacing.vertical.middle = {}

\* C4: add_to_table on a trio with an empty left or an empty right set,
\* and add_to_font on a spacing that cannot be added, fail an assertion
\* and leave the table as it was (no lookup, no feature record, no
\* feature index, no new GPOS table); add_to_font calls add_to_table only
\* for a trio that has a left and a right set.
C4_UnusableTrioIsRefused ==
    [][/\ (synth'.op = "add_to_table" /\ ~Usable(synth'.trio))
          => /\ synth'.error = "assert can_add_to_table"
             /\ table' = table
       /\ (synth'.op = "add_to_font" /\ ~SpacingUsable)
          => /\ synth'.error = "assert can_add_to_font"
             /\ table' = table
             /\ synth'.called = <<>>
       /\ synth'.op = "add_to_font"
          => \A i \in 1..Len(synth'.called) :
                /\ synth'.called[i] = "chws" => Usable(spacing.horizontal)
                /\ synth'.called[i] = "vchw" => Usable(spacing.vertical)]_vars

C4_Witness ==
    /\ synth.op = "add_to_table"
    /\ synth.trio.left # {}
    /\ synth.trio.right = {}
    /\ synth.trio.middle # {}
    /\ synth.em_h = 1000
    /\ ~has_ottable_feature(table, synth.tag)
    /\ synth.error = "assert can_add_to_table"

\* h is the floor of em / 2: 2h <= em < 2h + 2.
IsFloorOfHalf(h, em) == 2 * h <= em /\ em < 2 * h + 2

\* The half the pair-positioning lookup takes from the advance of the
\* first glyph.
HalfUsed(lookup) == CHOOSE h \in {0 - v[2] : v \in lookup.value1} : TRUE

\* The three lookups at lookups[first], the next and the one after use
\* half for a font of the given direction.
LookupsUseHalf(lookups, first, is_vertical, half) ==
    /\ lookups[first].value1 =
          (IF is_vertical THEN {<<"YAdvance", 0 - half>>}
           ELSE {<<"XAdvance", 0 - half>>})
    /\ lookups[first].value2 = {}
    /\ lookups[first + 1].mapping # {}
    /\ \A m \in lookups[first + 1].mapping :
          m[2] = (IF is_vertical
                  THEN {<<"YPlacement", half>>, <<"YAdvance", 0 - half>>}
                  ELSE {<<"XPlacement", 0 - half>>,
                        <<"XAdvance", 0 - half>>})

\* The lookups at lookups[first] and after are built from the advance em.
LookupsUseAdvance(lookups, first, is_vertical, em) ==
    LET half == HalfUsed(lookups[first])
    IN  /\ IsFloorOfHalf(half, em)
        /\ half > 0
        /\ em = 1000 => half = 500
        /\ em = 999 => half = 499
        /\ LookupsUseHalf(lookups, first, is_vertical, half)

\* C5: the half is floor(em / 2), 500 for 1000 and 499 for 999, and must
\* be positive (an advance below 2 is refused); the left value is
\* XAdvance = -half (YAdvance in vertical flow) and the right value is
\* XPlacement = -half with XAdvance = -half (YPlacement = +half with
\* YAdvance = -half in vertical flow).
C5_HalfEmAndValues ==
    /\ (synth.op = "add_to_table" /\ synth.error = "none")
       => LookupsUseAdvance(table.lookups, Len(table.lookups) - 2,
                            synth.font.is_vertical, synth.em_h)
    /\ (synth.op = "add_to_table" /\ synth.em_h < 2)
       => synth.error # "none"
    /\ (synth.op = "add_to_font" /\ synth.error = "none"
        /\ synth.called = <<"chws", "vchw">>)
       => /\ LookupsUseAdvance(table.lookups, Len(table.lookups) - 5, FALSE,
                               synth.em_h)
          /\ LookupsUseAdvance(table.lookups, Len(table.lookups) - 2, TRUE,
                               synth.em_v)

C5_Witness ==
    /\ synth.op = "add_to_table"
    /\ synth.error = "none"
    /\ synth.em_h = 999
    /\ synth.font.is_vertical
    /\ \E m \in table.lookups[Len(table.lookups) - 1].mapping :
          m[2] = {<<"YPlacement", 499>>, <<"YAdvance", 0 - 499>>}

\* A step of add_to_table that succeeds.
AddToTableSucceeds ==
    /\ synth.op = "none"
    /\ synth'.op = "add_to_table"
    /\ synth'.error = "none"

\* The step appends three lookups (pair, single, chained context) and one
\* feature record with the tag, and leaves what was there.
AppendsThreeLookupsAndOneFeature ==
    LET n == Len(table.lookups)
        f == Len(table.features)
    IN  /\ Len(table'.lookups) = n + 3
        /\ SubSeq(table'.lookups, 1, n) = table.lookups
        /\ table'.lookups[n + 1].type = "PairPos"
        /\ table'.lookups[n + 2].type = "SinglePos"
        /\ table'.lookups[n + 3].type = "ChainContextPos"
        /\ Len(table'.features) = f + 1
        /\ SubSeq(table'.features, 1, f) = table.features
        /\ table'.features[f + 1].FeatureTag = synth'.tag
        /\ Cardinality({i \in 1..(f + 1) :
               table'.features[i].FeatureTag = synth'.tag}) = 1

\* C6, as stated: the feature record lists the indices of all three
\* appended lookups and its LookupCount is 3.
C6_AsStated ==
    [][AddToTableSucceeds
       => /\ AppendsThreeLookupsAndOneFeature
          /\ LET n == Len(table.lookups)
                 feature == table'.features[Len(table.features) + 1]
             IN  /\ feature.LookupListIndex = <<n, n + 1, n + 2>>
                 /\ feature.LookupCount = 3]_vars

\* C6: add_to_table appends exactly three lookups and one feature record
\* with the given tag; the record lists the indices of the first (pair
\* positioning) and of the third (chained context) lookup and its
\* LookupCount is 2; the second (single positioning) lookup is invoked by
\* the rule of the third only.
C6_FeatureListsFirstAndThirdLookup ==
    [][AddToTableSucceeds
       => /\ AppendsThreeLookupsAndOneFeature
          /\ LET n == Len(table.lookups)
                 feature == table'.features[Len(table.features) + 1]
             IN  /\ feature.LookupListIndex = <<n, n + 2>>
                 /\ feature.LookupCount = 2
                 /\ table'.lookups[n + 3].lookups = <<<<n + 1>>>>]_vars

C6_Witness ==
    /\ synth.op = "add_to_table"
    /\ synth.error = "none"
    /\ Len(table.lookups) = 4
    /\ table.features[Len(table.features)].FeatureTag = synth.tag
    /\ table.features[Len(table.features)].LookupListIndex = <<1, 3>>
    /\ table.features[Len(table.features)].LookupCount = 2

\* Every language system of after is the one of before with the feature
\* indices added appended: the DefaultLangSys of a script that has one,
\* and every LangSysRecord.
LangSysGain(before, after, added) ==
    /\ Len(after) = Len(before)
    /\ \A i \in 1..Len(before) :
          /\ after[i].ScriptTag = before[i].ScriptTag
          /\ after[i].DefaultLangSys.present = before[i].DefaultLangSys.present
          /\ after[i].DefaultLangSys.FeatureIndex =
                (IF before[i].DefaultLangSys.present
                 THEN before[i].DefaultLangSys.FeatureIndex \o added
                 ELSE before[i].DefaultLangSys.FeatureIndex)
          /\ Len(after[i].LangSysRecord) = Len(before[i].LangSysRecord)
          /\ \A j \in 1..Len(before[i].LangSysRecord) :
                /\ after[i].LangSysRecord[j].LangSysTag =
                      before[i].LangSysRecord[j].LangSysTag
                /\ after[i].LangSysRecord[j].FeatureIndex =
                      before[i].LangSysRecord[j].FeatureIndex \o added

\* C7: the new feature's index is the length of the feature list before
\* the append, and it is appended once to the FeatureIndex of every
\* DefaultLangSys there is and of every LangSysRecord; when add_to_font
\* adds chws and vchw, every language system gains both, on a GPOS table
\* the font had or on the one add_to_font created.
C7_EveryLangSysGainsTheFeature ==
    [][/\ AddToTableSucceeds
          => LET index == Len(table.features)
             IN  /\ table'.features[index + 1].FeatureTag = synth'.tag
                 /\ LangSysGain(table.scripts, table'.scripts, <<index>>)
       /\ (synth.op = "none" /\ synth'.op = "add_to_font"
           /\ synth'.error = "none" /\ synth'.called = <<"chws", "vchw">>)
          => LET index == Len(table.features)
                 before == IF table.exists THEN table.scripts
                           ELSE <<[ScriptTag |-> "DFLT",
                                   DefaultLangSys |->
                                       [present |-> TRUE,
                                        FeatureIndex |-> <<>>],
                                   LangSysRecord |-> <<>>]>>
             IN  /\ table'.features[index + 1].FeatureTag = "chws"
                 /\ table'.features[index + 2].FeatureTag = "vchw"
                 /\ LangSysGain(before, table'.scripts,
                                <<index, index + 1>>)]_vars

C7_Witness ==
    /\ synth.op = "add_to_font"
    /\ synth.error = "none"
    /\ synth.called = <<"chws", "vchw">>
    /\ Len(table.features) = 3
    /\ Len(table.scripts) = 2
    /\ table.scripts[1].DefaultLangSys.FeatureIndex = <<0, 1, 2>>
    /\ ~table.scripts[2].DefaultLangSys.present
    /\ table.scripts[2].DefaultLangSys.FeatureIndex = <<>>
    /\ table.scripts[2].LangSysRecord[1].FeatureIndex = <<0, 1, 2>>
    /\ table.scripts[2].LangSysRecord[2].FeatureIndex = <<1, 2>>

(***************************************************************************)
(* Disjointness of the trio and stability of the cache (Spec).             *)
(***************************************************************************)
\* Every classifier of the pass in flight has ended, none raising.
EveryClassifierEnded ==
    /\ pass.pc = "gather"
    /\ \A k \in 1..Len(Groups) : Groups[k] \in pass.done

\* C1: after every add_glyphs call that returns without raising, the
\* trio's left, middle and right sets are pairwise disjoint, whatever the
\* probes returned and however many passes (of fonts of the same root)
\* were made before.
C1_ReturnedTrioIsDisjoint ==
    pass.pc = "idle"
        => /\ trio.left \cap trio.middle = {}
           /\ trio.left \cap trio.right = {}
           /\ trio.middle \cap trio.right = {}

\* A pass has returned with glyphs in two slots, both recorded in the
\* cache of the font's root.
C1_Witness ==
    /\ pass.pc = "idle"
    /\ trio.root_font # 0
    /\ trio.left = {1} /\ trio.middle = {2} /\ trio.right = {}
    /\ LET recorded ==
               cache[<<trio.root_font, pass.is_vertical>>].type_by_glyph_id
       IN  recorded[1] = "L" /\ recorded[2] = "M"

\* The glyphs a trio assigns a type to.
Assigned(t, type) ==
    IF type = "L" THEN t.left ELSE IF type = "M" THEN t.middle ELSE t.right

\* C2: once a glyph ID is recorded in a cache with class L, M or R, its
\* recorded class never changes; when add_glyphs adds the united trio to
\* the cache, assignments that repeat the recorded classes are accepted and
\* recorded, and an assignment of another class than the recorded one
\* raises the assertion failure and leaves the entry as it was.
C2_RecordedClassNeverChanges ==
    [][/\ \A h \in CacheHolders, g \in Glyphs :
            cache[h].type_by_glyph_id[g] # "N"
                => cache'[h].type_by_glyph_id[g] = cache[h].type_by_glyph_id[g]
       /\ EveryClassifierEnded
            => LET h == cache_holder(pass.font)
                   recorded == cache[h].type_by_glyph_id
                   conflict ==
                       \E g \in Glyphs, type \in Types :
                           /\ g \in Assigned(trio', type)
                           /\ \/ recorded[g] \notin {"N", type}
                              \/ \E other \in Types \ {type} :
                                    g \in Assigned(trio', other)
               IN  IF conflict
                   THEN pass'.pc = "raised" /\ pass'.error = "cache assert"
                   ELSE \A type \in Types : \A g \in Assigned(trio', type) :
                           cache'[h].type_by_glyph_id[g] = type
      ]_vars

\* A pass assigned another class to a recorded glyph and raised.
C2_Witness ==
    /\ pass.pc = "raised"
    /\ pass.error = "cache assert"
    /\ \E g \in trio.left \cap trio.right :
          cache[<<trio.root_font, pass.is_vertical>>].type_by_glyph_id[g] = "L"

(***************************************************************************)
(* The classifiers applied to every input: one call per behaviour.         *)
(***************************************************************************)
GroupInit ==
    /\ call = NoCall
    /\ IdleClassify
    /\ IdleSynth
    /\ IdleBuild

CallOpeningClosing ==
    /\ call.op = "none"
    /\ \E font \in GroupFonts, config \in ConfigsReading(FALSE, FALSE, FALSE),
          c \in GroupCaches :
       \E closing \in GlyphSets, opening \in GlyphSets, middle \in GlyphSets,
          horizontal \in ProbeIf(font.is_vertical) :
          LET p == [NoProbes EXCEPT !.closing = closing, !.opening = opening,
                                    !.middle = middle,
                                    !.horizontal = horizontal]
          IN  call' = [op |-> "opening_closing", font |-> font,
                       config |-> config, cache |-> c, p |-> p,
                       shaped |-> opening_closing_shaped(font),
                       out |-> get_opening_closing(font, config, p)]
    /\ UNCHANGED <<trio, cache, pass, spacing, table, synth, build>>

CallPeriodComma ==
    /\ call.op = "none"
    /\ \E font \in GroupFonts, config \in ConfigsReading(TRUE, FALSE, TRUE),
          c \in GroupCaches :
       \E ja \in ProbeIf(config.cjk_period_comma),
          zht \in ProbeIf(config.cjk_period_comma),
          zhs \in ProbeIf(config.cjk_period_comma),
          kor \in ProbeIf(config.cjk_period_comma) :
          LET p == [NoProbes EXCEPT !.ja = ja, !.zht = zht, !.zhs = zhs,
                                    !.kor = kor]
          IN  call' = [op |-> "period_comma", font |-> font,
                       config |-> config, cache |-> c, p |-> p,
                       shaped |-> period_comma_shaped(config),
                       out |-> get_period_comma(font, config, p)]
    /\ UNCHANGED <<trio, cache, pass, spacing, table, synth, build>>

CallColonSemicolon ==
    /\ call.op = "none"
    /\ \E font \in GroupFonts, config \in ConfigsReading(TRUE, TRUE, FALSE),
          c \in CacheObjects :
       LET two == config.is_colon_semicolon_middle = "None"
           debug == two /\ ~font.is_vertical
           jan == font.is_vertical
                  /\ config.language \in {"None", "JAN"}
       IN
       \E ja \in ProbeIf(two), zhs \in ProbeIf(two),
          zht \in ProbeIf(debug), kor \in ProbeIf(debug),
          glyphs \in ProbeIf(~two), ja_horizontal \in ProbeIf(jan) :
          LET p == [NoProbes EXCEPT !.ja = ja, !.zhs = zhs, !.zht = zht,
                                    !.kor = kor, !.glyphs = glyphs,
                                    !.ja_horizontal = ja_horizontal]
          IN  call' = [op |-> "colon_semicolon", font |-> font,
                       config |-> config, cache |-> c, p |-> p,
                       shaped |-> colon_semicolon_shaped(font, config, c, p),
                       out |-> get_colon_semicolon(font, config, c, p)]
    /\ UNCHANGED <<trio, cache, pass, spacing, table, synth, build>>

CallExclamQuestion ==
    /\ call.op = "none"
    /\ \E font \in GroupFonts, config \in ConfigsReading(TRUE, FALSE, FALSE),
          c \in GroupCaches :
       \E ja \in ProbeIf(~font.is_vertical), zhs \in ProbeIf(~font.is_vertical),
          zht \in ProbeIf(~font.is_vertical),
          kor \in ProbeIf(~font.is_vertical) :
          LET p == [NoProbes EXCEPT !.ja = ja, !.zhs = zhs, !.zht = zht,
                                    !.kor = kor]
          IN  call' = [op |-> "exclam_question", font |-> font,
                       config |-> config, cache |-> c, p |-> p,
                       shaped |-> exclam_question_shaped(font),
                       out |-> get_exclam_question(font, config, p)]
    /\ UNCHANGED <<trio, cache, pass, spacing, table, synth, build>>

GroupNext ==
    \/ CallOpeningClosing
    \/ CallPeriodComma
    \/ CallColonSemicolon
    \/ CallExclamQuestion

SpecGroup == GroupInit /\ [][GroupNext]_vars

(***************************************************************************)
(* Period/comma and colon/semicolon classification (SpecGroup).            *)
(***************************************************************************)
PeriodCommaCalled ==
    call.op = "period_comma" /\ call.config.cjk_period_comma

\* The debug-build probes of the call agree with its Japanese probe.
DebugProbesAgree == call.p.zhs = call.p.ja /\ call.p.kor = call.p.ja

\* The tags of the font's GSUB and GPOS script lists, stated on their own.
FontTags(font) ==
    LET records == {font.gsub_scripts[i] : i \in 1..Len(font.gsub_scripts)}
                   \cup {font.gpos_scripts[i] : i \in 1..Len(font.gpos_scripts)}
    IN  {<<r.tag, "None">> : r \in records}
        \cup UNION {{<<r.tag, r.langsys[j]>> : j \in 1..Len(r.langsys)} :
                      r \in records}

\* C8 as stated: whenever the JAN and ZHT probes of get_period_comma return
\* different sets, the call returns left = the JAN set, middle = the ZHT
\* set, right empty, and does not fail.
C8_AsStated ==
    (PeriodCommaCalled /\ call.p.ja # call.p.zht)
        => call.out = Returns(GlyphSetTrio(call.p.ja, {}, call.p.zht))

\* C8 amended: whenever the JAN and ZHT probes return different sets, the
\* declared language is not consulted and no language-required error is
\* raised; the call returns left = the JAN set, middle = the ZHT set and
\* right empty when the two sets are disjoint and the ZHS and KOR probes
\* equal the JAN set, and fails an assertion otherwise.
C8_DifferingPeriodComma ==
    (PeriodCommaCalled /\ call.p.ja # call.p.zht)
        => IF call.p.ja \cap call.p.zht = {} /\ DebugProbesAgree
           THEN call.out = Returns(GlyphSetTrio(call.p.ja, {}, call.p.zht))
           ELSE call.out.kind = "raise" /\ call.out.error = "assert"

C8_Witness ==
    /\ PeriodCommaCalled
    /\ call.config.language = "None"
    /\ call.p.ja = {1} /\ call.p.zht = {2}
    /\ call.out.kind = "trio"
    /\ call.out.trio.left = {1} /\ call.out.trio.middle = {2}

\* C9 as stated: whenever the JAN and ZHT probes return the same set S,
\* language ZHT or ZHH gives left empty and middle S, any other declared
\* language gives left S and middle empty, and no declared language gives
\* the language-required error listing the font's tags.
C9_AsStated ==
    (PeriodCommaCalled /\ call.p.ja = call.p.zht)
        => IF call.config.language = "None"
           THEN /\ call.out.kind = "raise"
                /\ call.out.error = "require_language"
                /\ call.out.tags = FontTags(call.font)
           ELSE IF call.config.language \in {"ZHT", "ZHH"}
           THEN call.out = Returns(GlyphSetTrio({}, {}, call.p.ja))
           ELSE call.out = Returns(GlyphSetTrio(call.p.ja, {}, {}))

\* C9 amended: the same, provided the ZHS and KOR probes also return S;
\* when one of them differs the call fails an assertion before the
\* language is looked at.
C9_IdenticalPeriodComma ==
    (PeriodCommaCalled /\ call.p.ja = call.p.zht)
        => IF ~DebugProbesAgree
           THEN call.out.kind = "raise" /\ call.out.error = "assert"
           ELSE IF call.config.language = "None"
           THEN /\ call.out.kind = "raise"
                /\ call.out.error = "require_language"
                /\ call.out.tags = FontTags(call.font)
           ELSE IF call.config.language \in {"ZHT", "ZHH"}
           THEN call.out = Returns(GlyphSetTrio({}, {}, call.p.ja))
           ELSE call.out = Returns(GlyphSetTrio(call.p.ja, {}, {}))

C9_Witness ==
    /\ PeriodCommaCalled
    /\ call.config.language = "ZHH"
    /\ call.p.ja = {1, 2} /\ call.p.zht = {1, 2}
    /\ call.out.kind = "trio"
    /\ call.out.trio.left = {} /\ call.out.trio.middle = {1, 2}

ColonTwoProbeHorizontal ==
    /\ call.op = "colon_semicolon"
    /\ ~call.font.is_vertical
    /\ call.config.is_colon_semicolon_middle = "None"

\* The probed glyphs the cache of the call has an entry of type t for.
CachedAs(t) ==
    {g \in call.p.ja \cup call.p.zhs :
        call.cache.exists /\ call.cache.type_by_glyph_id[g] = t}

CachedProbed == CachedAs("L") \cup CachedAs("M") \cup CachedAs("R")

\* C10 as stated: in horizontal flow without a centered flag, whenever the
\* JAN and ZHS probes of get_colon_semicolon return different sets, the
\* Japanese-shaped glyphs are in middle and the ZHS-shaped ones in left,
\* and no language-required error is raised, whatever the language.
C10_AsStated ==
    (ColonTwoProbeHorizontal /\ call.p.ja # call.p.zhs)
        => call.out = Returns(GlyphSetTrio(call.p.zhs, {}, call.p.ja))

\* C10 amended: in horizontal flow without a centered flag, whenever the
\* JAN and ZHS probes return different and disjoint sets and the ZHT and
\* KOR probes equal the JAN set, the call returns, whatever the language:
\* a probed glyph with a cache entry is in its cached class, the other
\* Japanese-shaped glyphs are in middle and the other ZHS-shaped glyphs in
\* left; with no probed glyph cached, middle is the JAN set and left the
\* ZHS set.
C10_DifferingColonSemicolon ==
    (/\ ColonTwoProbeHorizontal
     /\ call.p.ja # call.p.zhs
     /\ call.p.ja \cap call.p.zhs = {}
     /\ call.p.zht = call.p.ja /\ call.p.kor = call.p.ja)
        => /\ call.out.kind = "trio"
           /\ call.out.trio.middle
                = (call.p.ja \ CachedProbed) \cup CachedAs("M")
           /\ call.out.trio.left
                = (call.p.zhs \ CachedProbed) \cup CachedAs("L")
           /\ call.out.trio.right = CachedAs("R")
           /\ (CachedProbed = {}
                 => call.out = Returns(GlyphSetTrio(call.p.zhs, {}, call.p.ja)))

C10_Witness ==
    /\ ColonTwoProbeHorizontal
    /\ call.config.language = "ZHS"
    /\ ~call.cache.exists
    /\ call.p.ja = {1} /\ call.p.zhs = {2}
    /\ call.out.kind = "trio"
    /\ call.out.trio.middle = {1} /\ call.out.trio.left = {2}

\* The call is get_colon_semicolon with an explicit centered flag.
ColonExplicitFlag ==
    /\ call.op = "colon_semicolon"
    /\ call.config.is_colon_semicolon_middle # "None"

\* The trio the explicit flag gives in horizontal flow.
ColonFlagTrio ==
    IF call.config.is_colon_semicolon_middle = "True"
    THEN GlyphSetTrio({}, {}, call.p.glyphs)
    ELSE GlyphSetTrio(call.p.glyphs, {}, {})

\* The outcome of the call does not depend on the cache.
ColonIgnoresCache ==
    \A c \in CacheObjects :
        get_colon_semicolon(call.font, call.config, c, call.p) = call.out

\* C11 as stated: with an explicit centered flag only one probe runs,
\* the cache and the language play no part, the language-required error
\* is never raised, and in horizontal flow the flag decides between
\* middle and left.
C11_AsStated ==
    ColonExplicitFlag
        => /\ Cardinality(call.shaped) = 1
           /\ ColonIgnoresCache
           /\ call.out.error # "require_language"
           /\ ~call.font.is_vertical => call.out = Returns(ColonFlagTrio)

\* C11 amended: with an explicit centered flag no cache lookup and no
\* language disambiguation happen and the language-required error is
\* never raised; in horizontal flow only one probe runs, flag True gives
\* middle = the probed set with left empty and flag False gives left =
\* the probed set with middle empty, whatever the language; in vertical
\* flow a second probe, of the horizontal font with language JAN, runs
\* when no language or JAN is declared, and only one probe otherwise.
C11_ExplicitFlagDecides ==
    ColonExplicitFlag
        => /\ "glyphs" \in call.shaped
           /\ call.shaped \ {"glyphs"} =
                 (IF call.font.is_vertical
                     /\ call.config.language \in {"None", "JAN"}
                  THEN {"ja_horizontal"} ELSE {})
           /\ ColonIgnoresCache
           /\ call.out.kind = "trio"
           /\ ~call.font.is_vertical
              => /\ call.out = Returns(ColonFlagTrio)
                 /\ \A language \in Languages :
                       get_colon_semicolon(
                           call.font,
                           [call.config EXCEPT !.language = language],
                           call.cache, call.p) = call.out

C11_Witness ==
    /\ ColonExplicitFlag
    /\ call.font.is_vertical
    /\ call.config.is_colon_semicolon_middle = "True"
    /\ call.config.language = "None"
    /\ call.shaped = {"glyphs", "ja_horizontal"}
    /\ call.cache.exists
    /\ call.cache.type_by_glyph_id[1] = "L"
    /\ call.p.glyphs = {1, 2}
    /\ call.p.ja_horizontal = {2}
    /\ call.out = Returns(GlyphSetTrio({}, {}, {1}))

\* C12: for a vertical font the trio get_colon_semicolon returns has an
\* empty left set, whatever the probes, the language, the centered flag
\* and the cache hold.
C12_VerticalColonHasNoLeft ==
    (call.op = "colon_semicolon" /\ call.font.is_vertical
     /\ call.out.kind = "trio")
        => call.out.trio.left = {}

ExclamQuestionCalled == call.op = "exclam_question"

\* C13 as stated: a vertical font gets no trio and no probe; for a
\* horizontal font right and middle are empty and left is the ZHS set
\* when the JAN and ZHS probes differ or when they are identical and ZHS
\* is declared, empty when they are identical and another language is
\* declared, and identical probes with no language raise the
\* language-required error.
C13_AsStated ==
    ExclamQuestionCalled
        => IF call.font.is_vertical
           THEN call.out = ReturnsNone /\ call.shaped = {}
           ELSE IF call.p.ja # call.p.zhs
           THEN call.out = Returns(GlyphSetTrio(call.p.zhs, {}, {}))
           ELSE IF call.config.language = "None"
           THEN /\ call.out.kind = "raise"
                /\ call.out.error = "require_language"
           ELSE IF call.config.language = "ZHS"
           THEN call.out = Returns(GlyphSetTrio(call.p.zhs, {}, {}))
           ELSE call.out = Returns(GlyphSetTrio({}, {}, {}))

\* C13 amended: the same for a horizontal font whose ZHT and KOR probes
\* equal the JAN probe and whose JAN and ZHS probes, when they differ,
\* are disjoint; when a ZHT or KOR probe differs from the JAN probe, or
\* the JAN and ZHS probes differ and overlap, the call fails an
\* assertion.
C13_ExclamQuestion ==
    ExclamQuestionCalled
        => IF call.font.is_vertical
           THEN call.out = ReturnsNone /\ call.shaped = {}
           ELSE IF call.p.zht # call.p.ja \/ call.p.kor # call.p.ja
           THEN call.out.kind = "raise" /\ call.out.error = "assert"
           ELSE IF call.p.ja # call.p.zhs
           THEN IF call.p.ja \cap call.p.zhs = {}
                THEN call.out = Returns(GlyphSetTrio(call.p.zhs, {}, {}))
                ELSE call.out.kind = "raise" /\ call.out.error = "assert"
           ELSE IF call.config.language = "None"
           THEN /\ call.out.kind = "raise"
                /\ call.out.error = "require_language"
                /\ call.out.tags = FontTags(call.font)
           ELSE IF call.config.language = "ZHS"
           THEN call.out = Returns(GlyphSetTrio(call.p.zhs, {}, {}))
           ELSE call.out = Returns(GlyphSetTrio({}, {}, {}))

C13_Witness ==
    /\ ExclamQuestionCalled
    /\ ~call.font.is_vertical
    /\ call.config.language = "JAN"
    /\ call.p.ja = {1} /\ call.p.zhs = {2}
    /\ call.p.zht = {1} /\ call.p.kor = {1}
    /\ call.shaped = {"ja", "zhs", "zht", "kor"}
    /\ call.out = Returns(GlyphSetTrio({2}, {}, {}))

\* The trio C14 describes: closing glyphs left, opening glyphs right,
\* middle glyphs middle, less the horizontal font's glyphs in left and
\* right for a vertical font.
OpeningClosingExpected ==
    LET reduce == IF call.font.is_vertical THEN call.p.horizontal ELSE {}
    IN  GlyphSetTrio(call.p.closing \ reduce, call.p.opening \ reduce,
                     call.p.middle)

\* C14: get_opening_closing returns left = the closing glyphs, right =
\* the opening glyphs, middle = the middle glyphs; for a vertical font
\* the glyphs the horizontal font produces for the opening and closing
\* code points are removed from left and right, not from middle; the
\* returned trio is pairwise disjoint, or the call fails.
C14_OpeningClosing ==
    call.op = "opening_closing"
        => LET e == OpeningClosingExpected
           IN  IF /\ e.left \cap e.middle = {}
                  /\ e.left \cap e.right = {}
                  /\ e.middle \cap e.right = {}
               THEN call.out = Returns(e)
               ELSE call.out.kind = "raise" /\ call.out.error = "assert"

C14_Witness ==
    /\ call.op = "opening_closing"
    /\ call.font.is_vertical
    /\ call.p.closing = {1, 2} /\ call.p.opening = {2}
    /\ call.p.middle = {2} /\ call.p.horizontal = {2}
    /\ call.shaped = {"closing", "opening", "middle", "horizontal"}
    /\ call.out = Returns(GlyphSetTrio({1}, {}, {2}))

\* The glyphs the probes of the call's group classify (the probes that
\* only feed assertions or the vertical subtraction are not among them).
PolicyProbed ==
    IF call.op = "opening_closing"
    THEN call.p.closing \cup call.p.opening \cup call.p.middle
    ELSE IF call.op = "period_comma" THEN call.p.ja \cup call.p.zht
    ELSE call.p.ja \cup call.p.zhs \cup call.p.glyphs

\* Every probed glyph the cache has a class for is in the slot of that
\* class, and in no other.
CachedGlyphsKeepTheirClass ==
    \A g \in PolicyProbed :
        (call.cache.exists /\ call.cache.type_by_glyph_id[g] # "N")
            => /\ g \in call.out.trio.left
                    <=> call.cache.type_by_glyph_id[g] = "L"
               /\ g \in call.out.trio.middle
                    <=> call.cache.type_by_glyph_id[g] = "M"
               /\ g \in call.out.trio.right
                    <=> call.cache.type_by_glyph_id[g] = "R"

\* C18 as stated: in every group, a probed glyph the cache maps to a
\* class is placed in that class.
C18_AsStated ==
    (call.op # "none" /\ call.out.kind = "trio")
        => CachedGlyphsKeepTheirClass

\* The two-probe path of get_colon_semicolon, the debug probes agreeing.
ColonTwoProbe ==
    /\ call.op = "colon_semicolon"
    /\ call.config.is_colon_semicolon_middle = "None"
    /\ call.font.is_vertical
       \/ (call.p.zht = call.p.ja /\ call.p.kor = call.p.ja)

\* The probes of the call less the glyphs the cache has a class for.
NotCachedProbes ==
    LET ja == call.p.ja \ CachedProbed
    IN  [call.p EXCEPT !.ja = ja, !.zhs = call.p.zhs \ CachedProbed,
                       !.zht = IF call.font.is_vertical THEN {} ELSE ja,
                       !.kor = IF call.font.is_vertical THEN {} ELSE ja]

\* C18 amended: in the two-probe path of get_colon_semicolon, every probed
\* glyph the cache maps to a class is placed in that class, and the call
\* ends as it would without a cache on the probes less these glyphs: they
\* are withdrawn before the language is looked at.  The other groups, and
\* get_colon_semicolon with an explicit flag, do not read the cache.
C18_ColonReadsCacheFirst ==
    ColonTwoProbe
        => LET rest == get_colon_semicolon(call.font, call.config, NoCache,
                                           NotCachedProbes)
               cached == GlyphSetTrio(CachedAs("L"), CachedAs("R"),
                                      CachedAs("M"))
           IN  /\ call.out.kind = rest.kind
               /\ call.out.error = rest.error
               /\ call.out.kind = "trio"
                  => /\ call.out.trio = unite(cached, rest.trio)
                     /\ CachedGlyphsKeepTheirClass

C18_Witness ==
    /\ ColonTwoProbe
    /\ ~call.font.is_vertical
    /\ call.config.language = "None"
    /\ call.cache.exists
    /\ call.cache.type_by_glyph_id[1] = "R"
    /\ call.cache.type_by_glyph_id[2] = "N"
    /\ call.p.ja = {1, 2} /\ call.p.zhs = {1}
    /\ call.out = Returns(GlyphSetTrio({}, {1}, {2}))

\* C19 as stated: all fonts with the same root_or_self resolve to one
\* cache, so a class recorded while classifying one of them is seen when
\* classifying any other.
C19_AsStated ==
    \A f \in ClassifyFonts, g \in ClassifyFonts :
        root_or_self(f) = root_or_self(g)
            => cache[cache_holder(f)] = cache[cache_holder(g)]

\* C19 amended: there is one cache per root font and flow.  A pass writes
\* only the cache of the root and the flow of its font, the one its reads
\* resolve to: the horizontal fonts of a root share one cache, the
\* vertical companions share another, and a class recorded in one flow is
\* not seen in the other.
C19_OneCachePerRootAndFlow ==
    [][\A h \in CacheHolders :
          cache'[h] # cache[h]
              => /\ pass.pc = "gather"
                 /\ h = <<root_or_self(pass.font), pass.font.is_vertical>>
                 /\ \A g \in ClassifyFonts :
                       (root_or_self(g) = root_or_self(pass.font)
                        /\ g.is_vertical = pass.font.is_vertical)
                           => cache'[cache_holder(g)] = cache'[h]]_vars

\* A vertical pass of a later trio is under way and reads a cache that
\* has a class for a glyph, while the cache of the horizontal fonts of the
\* same root has none.
C19_Witness ==
    /\ pass.pc = "gather"
    /\ pass.font.is_vertical
    /\ trio.left = {} /\ trio.middle = {} /\ trio.right = {}
    /\ cache[cache_holder(pass.font)].exists
    /\ cache[cache_holder(pass.font)].type_by_glyph_id[1] = "L"
    /\ ~cache[<<root_or_self(pass.font), FALSE>>].exists

\* C20: within a pass the cache is written only once every one of the
\* four classifiers has ended; what is written is the trio united with
\* the results of the pass, a glyph keeping the class the cache had for
\* it.  While the pass awaits the advance and gathers, the cache stays as
\* it was when the pass started, so the reads of the classifiers see that
\* cache.  A pass starts only when none is in flight.
C20_CacheWrittenAfterGather ==
    [][/\ cache' # cache
          => /\ EveryClassifierEnded
             /\ pass'.pc \in {"idle", "raised"}
             /\ trio' = unite(trio, pass.results)
             /\ LET holder == cache_holder(pass.font)
                    before == cache[holder].type_by_glyph_id
                    after == cache'[holder].type_by_glyph_id
                IN  /\ \A g \in Glyphs :
                          after[g] # before[g]
                              => /\ before[g] = "N"
                                 /\ g \in Assigned(trio', after[g])
                    /\ pass'.pc = "idle"
                          => \A type \in Types :
                                \A g \in Assigned(trio', type) :
                                   after[g] = type
       /\ (pass.pc \in {"advance", "gather"}
           /\ pass'.pc \in {"advance", "gather"})
          => /\ cache' = cache
             /\ trio' = trio
             /\ pass'.font = pass.font
       /\ (pass.pc = "gather" /\ pass'.pc = "gather")
          => \E group \in {Groups[k] : k \in 1..Len(Groups)} \ pass.done :
                pass'.done = pass.done \cup {group}
       /\ (pass.pc # "advance" /\ pass'.pc = "advance")
          => pass.pc = "idle" /\ pass'.done = {}]_vars

\* Every classifier of a pass has ended, the cache of the font has a class
\* from an earlier pass, and the results of this pass hold a glyph the
\* cache has no class for yet.
C20_Witness ==
    /\ EveryClassifierEnded
    /\ cache[cache_holder(pass.font)].exists
    /\ cache[cache_holder(pass.font)].type_by_glyph_id[1] = "L"
    /\ cache[cache_holder(pass.font)].type_by_glyph_id[2] = "N"
    /\ pass.results.right = {2}

(***************************************************************************)
(* Builder (SpecCollection), from src/east_asian_spacing/builder.py.       *)
(* builder.py constructs the spacing with the font, EastAsianSpacing(font) *)
(* (lines 84, 115 and 184), and spacing.py defines __init__(self) (line    *)
(* 392): the call raises TypeError.  A build therefore ends at its first   *)
(* font: the font has the feature and the build returns (lines 82-83 and   *)
(* 99-100), or the constructor raises.  No run reaches add_glyphs, the     *)
(* second loop of build_collection or its line 134, and _spacings stays    *)
(* empty.                                                                  *)
(***************************************************************************)

\* The faces of a collection.
MaxFaces == 2
FaceIndices == 1..MaxFaces

\* font.reader_offset("GPOS"): 0 is None, the face has no GPOS table.
Offsets == {0, 1}

\* The GPOS table at an offset: one that has neither feature, one that has
\* chws, and one that has vchw.
CollectionTables ==
    {[exists |-> TRUE,
      lookups |-> [i \in 1..MaxLookups |-> ExistingLookup],
      features |-> ExistingFeatures(ts[1], MaxLookups),
      scripts |-> ExistingScripts(ts[2], ts[1])] :
        ts \in {<<<<"kern">>, "hani">>, <<<<"kern", "chws">>, "DFLT">>,
                <<<<"vchw">>, "hani">>}}

\* The fonts of the file the builder is made for (Builder.__init__): the
\* font itself, or the faces of the collection (font.fonts_in_collection)
\* by their index, which counts from 1 here and from 0 in the code.  Each
\* has the offset of its GPOS table, a vertical font or none (the first
\* face only may have one) and no language yet.
Faces ==
    {faces \in UNION {[1..n -> [root : {1}, is_vertical : {FALSE},
                                has_vertical_font : BOOLEAN,
                                gsub_scripts : {HaniScripts},
                                gpos_scripts : {NoScripts},
                                font_index : FaceIndices,
                                offset : Offsets,
                                language : {"None"}]] : n \in FaceIndices} :
        /\ \A i \in DOMAIN faces : faces[i].font_index = i
        /\ \A i \in DOMAIN faces : faces[i].has_vertical_font => i = 1}

\* Builder.has_spacings
has_spacings == Len(build.spacings) > 0

\* Builder.fonts_in_collection, by index: the faces that
\* apply_language_and_indices has selected when there are any (an empty
\* tuple is false, as None is), every face of the collection otherwise,
\* and None (the empty sequence here) for a font that is no collection.
fonts_in_collection(b) ==
    IF b.selected # <<>> THEN b.selected
    ELSE IF b.is_collection THEN [k \in DOMAIN b.fonts |-> k]
    ELSE <<>>

\* The fonts Builder.build runs over, in its order: the fonts of
\* fonts_in_collection (build_collection, line 98), or the font itself
\* (build, lines 81-90).
BuildFonts == IF build.is_collection THEN fonts_in_collection(build) ELSE <<1>>

\* The places of that order, the font at a place, and its GPOS table.
BuildFaces == DOMAIN BuildFonts
Face(i) == build.fonts[BuildFonts[i]]
TableOf(i) == build.tables[BuildFonts[i]]

\* EastAsianSpacing.font_has_feature
font_has_feature(font, tbl) ==
    \/ has_ottable_feature(tbl, "chws")
    \/ font.has_vertical_font /\ has_ottable_feature(tbl, "vchw")

\* The arguments of apply_language_and_indices.  language: None, one tag,
\* or tags separated by commas, here with the list split(",") makes of it.
ApplyLanguages ==
    {[text |-> "None", tags |-> <<>>], [text |-> "JAN", tags |-> <<"JAN">>],
     [text |-> "JAN,ZHS", tags |-> <<"JAN", "ZHS">>]}

\* indices: None, or the indices of some faces (as a list, or as the text
\* that lines 160-161 split into one), in any order and with repetitions.
ApplyIndices ==
    {[given |-> FALSE, list |-> <<>>]} \cup
    {[given |-> TRUE, list |-> l] :
        l \in UNION {[1..n -> FaceIndices] : n \in 0..MaxFaces}}

\* itertools.zip_longest leaves None where a list has ended: 0 for an
\* index.
NoIndex == 0

\* Builder.calc_indices_and_languages, lines 157-167: the pairs of an index
\* and a language.  One language is given to every index; of several, each
\* goes to the index of its place, and the shorter list is filled with
\* None.
calc_indices_and_languages(num_fonts, indices, language) ==
    LET list == IF indices.given THEN indices.list
                ELSE [k \in 1..num_fonts |-> k]
        tags == language.tags
        n == IF Len(tags) >= 2 /\ Len(tags) > Len(list) THEN Len(tags)
             ELSE Len(list)
    IN  [k \in 1..n |->
            [index |-> IF k <= Len(list) THEN list[k] ELSE NoIndex,
             language |-> IF Len(tags) = 1 THEN tags[1]
                          ELSE IF k <= Len(tags) THEN tags[k]
                          ELSE "None"]]

\* Builder.calc_fonts_in_collection, lines 150-153, up to the pair at
\* place last: font.language of each font is what the last of the pairs
\* with its index has given it.
languages_set(fonts, pairs, last) ==
    [f \in DOMAIN fonts |->
        LET places == {k \in 1..last : pairs[k].index = f}
        IN  IF places = {} THEN fonts[f]
            ELSE [fonts[f] EXCEPT
                     !.language =
                         pairs[CHOOSE k \in places :
                                  \A j \in places : j <= k].language]]

\* Builder.apply_language_and_indices(language, indices), once, before the
\* build.  A font that is no collection gets the language as it is given,
\* and the assertion on indices comes after that.  For a collection the
\* pairs are made (the collection has two fonts at least, or the assertion
\* of line 157 fails), and the fonts are looked up and given their
\* language one after another: the index None, where the languages are
\* more than the indices, raises TypeError at line 151 with the fonts
\* before it changed and no selection made.
ApplyLanguageAndIndices ==
    /\ build.pc = "new"
    /\ \E language \in ApplyLanguages, indices \in ApplyIndices :
          LET num_fonts == Len(build.fonts)
              pairs == calc_indices_and_languages(num_fonts, indices,
                                                  language)
              bad == {k \in DOMAIN pairs : pairs[k].index = NoIndex}
              first_bad == CHOOSE k \in bad : \A j \in bad : k <= j
          IN  IF ~build.is_collection
              THEN build' =
                     [build EXCEPT
                        !.fonts[1].language = language.text,
                        !.pc = IF indices.given THEN "apply raised"
                               ELSE "applied",
                        !.error = IF indices.given
                                  THEN "assert indices is None" ELSE @]
              ELSE IF ~(num_fonts >= 2)
              THEN build' = [build EXCEPT !.pc = "apply raised",
                                          !.error = "assert num_fonts"]
              ELSE IF bad # {}
              THEN build' =
                     [build EXCEPT
                        !.fonts = languages_set(@, pairs, first_bad - 1),
                        !.pc = "apply raised",
                        !.error = "TypeError: list indices"]
              ELSE build' =
                     [build EXCEPT
                        !.fonts = languages_set(@, pairs, Len(pairs)),
                        !.selected = [k \in DOMAIN pairs |-> pairs[k].index],
                        !.pc = "applied"]
    /\ UNCHANGED <<call, trio, cache, pass, spacing, table, synth>>

\* Builder.build, lines 74-90, with build_collection, lines 92-117, for a
\* collection: the first font of the build has the feature and the call
\* returns, or EastAsianSpacing(font) raises TypeError (lines 84 and 115;
\* spacing_by_offset is empty at the first font, so line 115 is where a
\* collection gets to).
Build ==
    /\ build.pc \in {"new", "applied"}
    /\ build' = IF font_has_feature(Face(1), TableOf(1))
                THEN [build EXCEPT !.pc = "returned"]
                ELSE [build EXCEPT !.pc = "raised",
                                   !.error = "TypeError: __init__"]
    /\ UNCHANGED <<call, trio, cache, pass, spacing, table, synth>>

\* Builder.save_glyphs, lines 169-187 (Builder.save, line 40, begins with
\* the same assertion): has_spacings is asserted first; were there a
\* spacing, line 184 would raise as lines 84 and 115 do.
SaveGlyphs ==
    /\ build.pc \in {"new", "applied", "returned"}
    /\ build' = [build EXCEPT
                    !.pc = "save raised",
                    !.error = IF has_spacings THEN "TypeError: __init__"
                              ELSE "assert has_spacings"]
    /\ UNCHANGED <<call, trio, cache, pass, spacing, table, synth>>

\* Builder(font): no selection and no spacing (Builder.__init__).  gpos is
\* the GPOS table the faces with an offset share, entries is
\* spacing_by_offset and built_fonts the list of the second loop of
\* build_collection.
CollectionInit ==
    /\ call = NoCall
    /\ IdleClassify
    /\ IdleSynth
    /\ \E faces \in Faces, gpos \in CollectionTables,
          is_collection \in BOOLEAN :
          /\ ~is_collection => Len(faces) = 1
          /\ build = [pc |-> "new", fonts |-> faces,
                      is_collection |-> is_collection,
                      selected |-> <<>>,
                      gpos |-> IF \E i \in DOMAIN faces : faces[i].offset # 0
                               THEN gpos ELSE NoTable,
                      tables |-> [i \in DOMAIN faces |->
                                     IF faces[i].offset = 0 THEN NoTable
                                     ELSE gpos],
                      entries |-> <<>>, spacings |-> <<>>,
                      built_fonts |-> <<>>, error |-> "none"]

CollectionNext ==
    \/ ApplyLanguageAndIndices
    \/ Build
    \/ SaveGlyphs

SpecCollection == CollectionInit /\ [][CollectionNext]_vars

(***************************************************************************)
(* Claims C15, C16: the collection coordinator.                            *)
(***************************************************************************)

\* The entry of spacing_by_offset the face was classified into; 0 when it
\* was not.
EntryOf(i) ==
    IF \E e \in 1..Len(build.entries) :
          \E k \in 1..Len(build.entries[e].fonts) :
             build.entries[e].fonts[k] = i
    THEN CHOOSE e \in 1..Len(build.entries) :
            \E k \in 1..Len(build.entries[e].fonts) :
               build.entries[e].fonts[k] = i
    ELSE 0

\* The table of the face as it was before the build.
OriginalTable(i) ==
    IF Face(i).offset = 0 THEN NoTable ELSE build.gpos

\* What the build has appended to the table of the face.
AppendedLookups(i) ==
    SubSeq(TableOf(i).lookups, Len(OriginalTable(i).lookups) + 1,
           Len(TableOf(i).lookups))

AppendedFeatures(i) ==
    SubSeq(TableOf(i).features, Len(OriginalTable(i).features) + 1,
           Len(TableOf(i).features))

\* build_collection has ended, by returning or by raising.
CollectionBuildEnded ==
    build.is_collection /\ build.pc \in {"done", "returned", "raised"}

\* No face of the build carried the feature before the build.
NoFaceHasFeature ==
    \A k \in BuildFaces : ~font_has_feature(Face(k), OriginalTable(k))

\* add_to_font was applied to the face.
Built(i) == \E k \in 1..Len(build.built_fonts) : build.built_fonts[k] = i

\* C15: when build_collection has ended on faces none of which carried the
\* feature, two different faces with the same GPOS offset are classified
\* into one shared spacing (one entry of spacing_by_offset), add_to_font
\* has been applied to both when the spacing can be added, and both have
\* received the same lookups and feature records.
C15_SharedSpacingSameLookups ==
    \A i \in BuildFaces, j \in BuildFaces :
        (/\ CollectionBuildEnded
         /\ NoFaceHasFeature
         /\ BuildFonts[i] # BuildFonts[j]
         /\ Face(i).offset = Face(j).offset)
            => /\ EntryOf(i) # 0
               /\ EntryOf(j) = EntryOf(i)
               /\ Truthy(can_add_to_font(
                      build.entries[EntryOf(i)].spacing))
                     => Built(i) /\ Built(j)
               /\ AppendedLookups(i) = AppendedLookups(j)
               /\ AppendedFeatures(i) = AppendedFeatures(j)

\* A face of the sharing group of the face (the faces with its GPOS
\* offset) had the feature before the build.
GroupHasFeature(i) ==
    \E j \in BuildFaces :
        /\ Face(j).offset = Face(i).offset
        /\ font_has_feature(Face(j), OriginalTable(j))

\* C16: when build_collection has ended, nothing was added to a face whose
\* sharing group has a face that carried the feature, and every face of
\* the other groups was classified and, when its spacing can be added,
\* built (add_to_font was applied to it).
C16_OtherGroupsAreStillBuilt ==
    build.pc \in {"done", "returned"}
        => \A i \in BuildFaces :
              IF GroupHasFeature(i)
              THEN TableOf(i) = OriginalTable(i)
              ELSE /\ EntryOf(i) # 0
                   /\ Truthy(can_add_to_font(
                          build.entries[EntryOf(i)].spacing))
                      => Built(i)

(***************************************************************************)
(* GlyphSetTrio.build_lookup applied to every input (SpecLookup): one call *)
(* per behaviour, on a trio whose sets may hold several glyphs each.       *)
(***************************************************************************)

\* The glyphs of the trios build_lookup is called with.
MaxLookupGlyph == 3
LookupGlyphSets == SUBSET (1..MaxLookupGlyph)

\* The trios add_glyphs leaves, bound to the root of the font.
LookupTrios ==
    {t \in [left : LookupGlyphSets, right : LookupGlyphSets,
            middle : LookupGlyphSets, root_font : {1}] :
        glyphs_are_disjoint(t)}

LookupInit ==
    /\ call = NoCall
    /\ IdleClassify
    /\ spacing = NewSpacing
    /\ table \in {t \in SynthTables : t.exists /\ t.features = <<>>}
    /\ \E t \in LookupTrios : synth = [NoSynth EXCEPT !.trio = t]
    /\ IdleBuild

\* self.build_lookup(font, lookups), on the lookups of the table.
CallBuildLookup ==
    /\ synth.op = "none"
    /\ \E font \in {f \in SynthFonts : ~f.has_vertical_font},
          em \in EmValues :
          LET out == build_lookup(synth.trio, font, em, table.lookups)
          IN  /\ table' = [table EXCEPT !.lookups = out.lookups]
              /\ synth' = [synth EXCEPT
                              !.op = "build_lookup", !.font = font,
                              !.em_h = em,
                              !.error = out.error,
                              !.called = out.lookup_indices]
    /\ UNCHANGED <<call, trio, cache, pass, spacing, build>>

LookupNext == CallBuildLookup

SpecLookup == LookupInit /\ [][LookupNext]_vars

(***************************************************************************)
(* One run of classification and synthesis (SpecRun):                      *)
(* EastAsianSpacing.add_glyphs(font, config) on a new spacing, then        *)
(* add_to_font(font).  The inputs of the run are fixed when it starts and  *)
(* kept in call: the font, the configuration, what each shaping probe      *)
(* returns, the full-width advances and the GPOS table.  What is left to   *)
(* the run is the order in which the classifiers of a gather end and the   *)
(* order in which the glyphs of a set are visited.                         *)
(***************************************************************************)

\* The glyphs of a run.
RunGlyphs == 1..MaxLookupGlyph

\* The fonts of a run: a horizontal font with or without a vertical font,
\* and a vertical font, which EastAsianSpacing.add_glyphs refuses.
RunFonts ==
    {[root |-> 1, is_vertical |-> f[1], has_vertical_font |-> f[2],
      gsub_scripts |-> HaniScripts, gpos_scripts |-> NoScripts] :
        f \in {<<FALSE, FALSE>>, <<FALSE, TRUE>>, <<TRUE, FALSE>>}}

\* The configurations of a run: no language or Japanese, the two-probe
\* path for colon and semicolon, period and comma probed.
RunConfigs ==
    {c \in Configs : /\ c.language \in {"None", "JAN"}
                     /\ c.is_colon_semicolon_middle = "None"
                     /\ c.cjk_period_comma}

\* The full-width advance the shaper finds for a font: none, or an odd or
\* an even one.
RunEms == {NoAdvance, 999, 1000}

\* The GPOS table the font comes with.
RunTables == {NoTable} \cup CollectionTables

\* No font of a run has a cache object when the run starts.
RunNoCache ==
    [exists |-> FALSE, type_by_glyph_id |-> [g \in RunGlyphs |-> "N"]]

\* What the probes of the four classifiers return for the horizontal font:
\* for each classifier two answers, of which some make the classifier
\* raise for want of a language and some put a glyph into two slots.
HorizontalShapings ==
    [opening_closing :
        {[NoProbes EXCEPT !.closing = {1}, !.opening = {2}], NoProbes},
     period_comma :
        {[NoProbes EXCEPT !.ja = {1}, !.zhs = {1}, !.kor = {1}], NoProbes},
     colon_semicolon :
        {NoProbes, [NoProbes EXCEPT !.ja = {3}, !.zht = {3}, !.kor = {3}]},
     exclam_question :
        {[NoProbes EXCEPT !.zhs = {3}], NoProbes}]

\* And for the vertical font, where get_exclam_question issues no probe.
VerticalShapings ==
    [opening_closing :
        {[NoProbes EXCEPT !.closing = {1}, !.opening = {2}],
         [NoProbes EXCEPT !.closing = {1}, !.opening = {2},
                          !.horizontal = {2}]},
     period_comma :
        {[NoProbes EXCEPT !.ja = {1}, !.zhs = {1}, !.kor = {1}]},
     colon_semicolon :
        {[NoProbes EXCEPT !.ja = {3}], [NoProbes EXCEPT !.ja = {1}]},
     exclam_question : {NoProbes}]

RunShapings == [horizontal : HorizontalShapings, vertical : VerticalShapings]

\* The flow of a font, as the shapings are named.
flow_of(font) == IF font.is_vertical THEN "vertical" ELSE "horizontal"

\* The classifier of a group (lines 78-81), on the cache object c and the
\* answers p of its probes.
classifier(group, font, config, c, p) ==
    CASE group = "opening_closing" -> get_opening_closing(font, config, p)
      [] group = "period_comma" -> get_period_comma(font, config, p)
      [] group = "colon_semicolon" -> get_colon_semicolon(font, config, c, p)
      [] group = "exclam_question" -> get_exclam_question(font, config, p)

\* The run before its first call.  skipped: config.for_font returns None
\* for the font and for its vertical font.  The inputs a run does not get
\* to are fixed: a vertical font is refused before anything is read, and
\* the shaping and the advance of a vertical font are read only when the
\* font has one.
RunInit ==
    /\ \E font \in RunFonts, config \in RunConfigs, skipped \in BOOLEAN,
          shaping \in RunShapings, tbl \in RunTables,
          em_h \in RunEms, em_v \in RunEms :
          LET first == CHOOSE s \in RunShapings : TRUE
          IN  /\ font.is_vertical
                    => /\ ~skipped /\ config.language = "None"
                       /\ shaping = first /\ em_h = NoAdvance
              /\ ~font.has_vertical_font
                    => shaping.vertical = first.vertical /\ em_v = NoAdvance
              /\ call = [op |-> "run", font |-> font, config |-> config,
                         skipped |-> skipped, shaping |-> shaping,
                         em_h |-> em_h, em_v |-> em_v, table |-> tbl]
              /\ table = tbl
    /\ trio = NewTrioObject
    /\ cache = [h \in CacheHolders |-> RunNoCache]
    /\ pass = IdlePass(FALSE)
    /\ spacing = NewSpacing
    /\ synth = NoSynth
    /\ IdleBuild

\* EastAsianSpacing.add_glyphs, lines 409-410, with GlyphSetTrio.add_glyphs,
\* lines 72-73: a vertical font fails the assertion; otherwise assert_font
\* binds the horizontal trio to the root of the font and the call awaits
\* the full-width advance.
RunAddGlyphs ==
    /\ synth.op = "none"
    /\ IF call.font.is_vertical
       THEN /\ pass' = Raised("assert not is_vertical")
            /\ UNCHANGED spacing
       ELSE /\ spacing' = [spacing EXCEPT
                              !.horizontal.root_font =
                                  root_or_self(call.font)]
            /\ pass' = AwaitingAdvance(call.font, call.config)
    /\ synth' = [synth EXCEPT
                    !.op = "add_glyphs",
                    !.font = [root |-> call.font.root,
                              is_vertical |-> call.font.is_vertical,
                              has_vertical_font |->
                                  call.font.has_vertical_font]]
    /\ UNCHANGED <<call, trio, cache, table, build>>

\* A pass of the run has returned, leaving sp as the spacing
\* (EastAsianSpacing.add_glyphs, lines 411-413): after the horizontal pass
\* of a font that has a vertical font the vertical trio is given the
\* vertical font, which binds it; otherwise add_glyphs returns.
RunPassReturned(sp) ==
    IF ~pass.is_vertical /\ call.font.has_vertical_font
    THEN /\ spacing' = [sp EXCEPT !.vertical.root_font =
                                      root_or_self(call.font)]
         /\ pass' = AwaitingAdvance(vertical_font(call.font), call.config)
         /\ UNCHANGED synth
    ELSE /\ spacing' = sp
         /\ pass' = IdlePass(FALSE)
         /\ synth' = [synth EXCEPT !.op = "classified"]

\* GlyphSetTrio.add_glyphs, lines 73-81: the await of line 73 returns.
\* The call returns at once when the shaper has found no full-width
\* advance or the configuration skips the font; otherwise the four
\* classifiers are started.
RunEnsureAdvance ==
    /\ pass.pc = "advance"
    /\ LET em == IF pass.is_vertical THEN call.em_v ELSE call.em_h
       IN  IF em = NoAdvance \/ call.skipped
           THEN RunPassReturned(spacing)
           ELSE /\ pass' = [pass EXCEPT !.pc = "gather"]
                /\ UNCHANGED <<spacing, synth>>
    /\ UNCHANGED <<call, trio, cache, table, build>>

\* A classifier of the gather ends (lines 78-81), any of those that have
\* not ended yet, with what its probes return in this run.
RunClassifierEnds ==
    /\ \E k \in 1..Len(Groups) :
          /\ Gathering(Groups[k])
          /\ pass' = Gathered(Groups[k],
                        classifier(Groups[k], pass.font, pass.config,
                                   cache[cache_holder(pass.font)],
                                   call.shaping[flow_of(pass.font)]
                                               [Groups[k]]))
    /\ UNCHANGED <<call, trio, cache, spacing, table, synth, build>>

\* GlyphSetTrio.add_glyphs, lines 82-85, on the trio of the flow: the
\* results are united into the trio, the trio is added to the cache and
\* asserted disjoint; then the pass returns.
RunEndPass ==
    /\ AllGathered
    /\ LET holder == cache_holder(pass.font)
           flow == flow_of(pass.font)
       IN  \E merged \in add_glyphs_merge(spacing[flow], pass.results,
                                          cache[holder]) :
              /\ cache' = [cache EXCEPT ![holder] = merged.cache]
              /\ IF merged.error = "none"
                 THEN RunPassReturned([spacing EXCEPT ![flow] = merged.trio])
                 ELSE /\ spacing' = [spacing EXCEPT ![flow] = merged.trio]
                      /\ pass' = Raised(merged.error)
                      /\ UNCHANGED synth
    /\ UNCHANGED <<call, trio, table, build>>

\* EastAsianSpacing.add_to_font(font), after add_glyphs has returned.
RunAddToFont ==
    /\ synth.op = "classified"
    /\ LET out == add_to_font(spacing, synth.font, call.em_h, call.em_v,
                              table)
       IN  /\ spacing' = out.spacing
           /\ table' = out.table
           /\ synth' = [synth EXCEPT !.op = "add_to_font",
                                     !.em_h = call.em_h, !.em_v = call.em_v,
                                     !.error = out.error,
                                     !.called = out.called]
    /\ UNCHANGED <<call, trio, cache, pass, build>>

RunNext ==
    \/ RunAddGlyphs
    \/ RunEnsureAdvance
    \/ RunClassifierEnds
    \/ RunEndPass
    \/ RunAddToFont

SpecRun == RunInit /\ [][RunNext]_vars

(***************************************************************************)
(* Claim C17 (SpecRun).                                                    *)
(***************************************************************************)

\* The list names the glyphs of the set, each once, in ascending order of
\* glyph ID: there is one such list for a set.
ListsAscending(names, glyphs) ==
    /\ {names[i][2] : i \in 1..Len(names)} = glyphs
    /\ \A i \in 1..Len(names), j \in 1..Len(names) :
          i < j => names[i][2] < names[j][2]

\* The glyph lists of the three lookups that follow the first n lookups
\* of the table list the sets of the trio in ascending order.
LookupsAscending(n, t) ==
    LET pair == table.lookups[n + 1]
        chain == table.lookups[n + 3]
        l == Cardinality(t.left)
        m == Cardinality(t.middle)
        r == Cardinality(t.right)
        middle == SubSeq(pair.glyphs2, l + 1, l + m)
        right == SubSeq(pair.glyphs2, l + m + 1, l + m + r)
    IN  /\ ListsAscending(pair.glyphs1, t.left)
        /\ Len(pair.glyphs2) = l + m + r
        /\ SubSeq(pair.glyphs2, 1, l) = pair.glyphs1
        /\ ListsAscending(middle, t.middle)
        /\ ListsAscending(right, t.right)
        /\ chain.prefix = <<middle \o right>>
        /\ chain.glyphs = <<right>>

\* The trio with the outcome of a classifier united into it (lines 82-83).
UnitedWith(t, out) == IF out.kind = "trio" THEN unite(t, out.trio) ELSE t

\* What a pass makes of a new trio, from the inputs of the run alone, the
\* outcomes of the classifiers taken in the order of the argument list of
\* the gather: the trio it leaves, and whether it returns or raises.
ExpectedPass(font, em) ==
    LET bound == [NewTrioObject EXCEPT !.root_font = root_or_self(font)]
        out(k) == classifier(Groups[k], font, call.config, RunNoCache,
                             call.shaping[flow_of(font)][Groups[k]])
        united == UnitedWith(UnitedWith(UnitedWith(UnitedWith(
                      bound, out(1)), out(2)), out(3)), out(4))
        overlap == \/ united.left \cap united.middle # {}
                   \/ united.left \cap united.right # {}
                   \/ united.middle \cap united.right # {}
    IN  IF em = NoAdvance \/ call.skipped
        THEN [returned |-> TRUE, trio |-> bound]
        ELSE IF \E k \in 1..Len(Groups) : out(k).kind = "raise"
        THEN [returned |-> FALSE, trio |-> bound]
        ELSE [returned |-> ~overlap, trio |-> united]

\* What the run makes of its inputs: whether add_glyphs raises, the
\* spacing it leaves, and what add_to_font makes of that spacing and the
\* table.
ExpectedRun ==
    LET font == call.font
        h == ExpectedPass(font, call.em_h)
        v == IF h.returned /\ font.has_vertical_font
             THEN ExpectedPass(vertical_font(font), call.em_v)
             ELSE [returned |-> h.returned, trio |-> NewTrioObject]
        classified == IF font.is_vertical THEN NewSpacing
                      ELSE [horizontal |-> h.trio, vertical |-> v.trio]
        added == add_to_font(classified,
                             [root |-> font.root,
                              is_vertical |-> font.is_vertical,
                              has_vertical_font |-> font.has_vertical_font],
                             call.em_h, call.em_v, call.table)
    IN  [raised |-> font.is_vertical \/ ~h.returned \/ ~v.returned,
         classified |-> classified, added |-> added]

\* C17: a run of classification and synthesis is determined by its inputs
\* (the font, the configuration, what each probe returns, the advances and
\* the table), whatever order the classifiers of a gather end in and
\* whatever order the glyphs of a set are visited in: whether add_glyphs
\* raises, the trios it leaves, how add_to_font ends, and the lookups, the
\* feature records and the FeatureIndex lists of the table after it are
\* those computed from the inputs in the order of the argument list; the
\* glyph lists of the appended lookups are in ascending order of glyph ID.
C17_RunsAgree ==
    LET e == ExpectedRun
        n == Len(call.table.lookups)
    IN  /\ pass.pc = "raised"
              => e.raised /\ spacing = e.classified /\ table = call.table
        /\ synth.op = "classified"
              => ~e.raised /\ spacing = e.classified /\ table = call.table
        /\ synth.op = "add_to_font"
              => /\ ~e.raised
                 /\ spacing = e.added.spacing
                 /\ table = e.added.table
                 /\ synth.error = e.added.error
                 /\ synth.called = e.added.called
                 /\ (synth.error = "none" /\ synth.called # <<>>)
                       => /\ Len(table.lookups) = n + 3 * Len(synth.called)
                          /\ LookupsAscending(
                                 n, IF synth.called[1] = "chws"
                                    THEN spacing.horizontal
                                    ELSE spacing.vertical)
                          /\ Len(synth.called) = 2
                                => LookupsAscending(n + 3, spacing.vertical)

\* A run whose horizontal trio has the glyphs of three classifiers, two of
\* them in its left set, and whose font has received both features.
C17_Witness ==
    /\ synth.op = "add_to_font"
    /\ synth.error = "none"
    /\ synth.called = <<"chws", "vchw">>
    /\ spacing.horizontal.left = {1, 3}
    /\ spacing.horizontal.right = {2}
    /\ spacing.vertical.middle = {3}
    /\ call.table.exists
    /\ table.lookups[Len(call.table.lookups) + 1].glyphs1
          = <<<<"glyph", 1>>, <<"glyph", 3>>>>

(***************************************************************************)
(* Claims about the indices of a table (SpecSynth).                        *)
(***************************************************************************)

\* before is a prefix of after: every entry of before is in after, at the
\* same index.
IsPrefix(before, after) ==
    /\ Len(before) <= Len(after)
    /\ SubSeq(after, 1, Len(before)) = before

\* Every language system of before is in after, with the feature indices
\* it had at the places they had.
LangSysKeepEntries(before, after) ==
    /\ Len(before) <= Len(after)
    /\ \A i \in 1..Len(before) :
          /\ after[i].ScriptTag = before[i].ScriptTag
          /\ after[i].DefaultLangSys.present = before[i].DefaultLangSys.present
          /\ IsPrefix(before[i].DefaultLangSys.FeatureIndex,
                      after[i].DefaultLangSys.FeatureIndex)
          /\ Len(after[i].LangSysRecord) = Len(before[i].LangSysRecord)
          /\ \A j \in 1..Len(before[i].LangSysRecord) :
                /\ after[i].LangSysRecord[j].LangSysTag =
                      before[i].LangSysRecord[j].LangSysTag
                /\ IsPrefix(before[i].LangSysRecord[j].FeatureIndex,
                            after[i].LangSysRecord[j].FeatureIndex)

\* The lookups at the indices n, n + 1 and n + 2 of the list (counted from
\* 0) are the three new ones, and the feature record and the rule of the
\* third name them by these indices.
NewLookupsAt(tbl, n, feature) ==
    /\ tbl.lookups[n + 1].type = "PairPos"
    /\ tbl.lookups[n + 2].type = "SinglePos"
    /\ tbl.lookups[n + 3].type = "ChainContextPos"
    /\ {feature.LookupListIndex[k] : k \in 1..Len(feature.LookupListIndex)}
          \cup {tbl.lookups[n + 3].lookups[1][1]} = n..(n + 2)

\* A step of add_to_font that adds chws and then vchw.
AddToFontAddsBoth ==
    /\ synth.op = "none"
    /\ synth'.op = "add_to_font"
    /\ synth'.error = "none"
    /\ synth'.called = <<"chws", "vchw">>

\* C21: the lookup list, the feature list and the FeatureIndex lists are
\* append-only.  add_to_table leaves every lookup, feature record and
\* FeatureIndex entry that was there unchanged and at its index, and the
\* new lookups take the indices n, n + 1, n + 2, n being the length of the
\* lookup list before the call; when add_to_font adds chws and then vchw to
\* one table, the six new lookups have the six indices n..n + 5 and the two
\* features have the consecutive indices f and f + 1.
C21_ListsAreAppendOnly ==
    [][/\ AddToTableSucceeds
          => LET n == Len(table.lookups)
                 f == Len(table.features)
             IN  /\ IsPrefix(table.lookups, table'.lookups)
                 /\ IsPrefix(table.features, table'.features)
                 /\ LangSysKeepEntries(table.scripts, table'.scripts)
                 /\ Len(table'.lookups) = n + 3
                 /\ NewLookupsAt(table', n, table'.features[f + 1])
       /\ AddToFontAddsBoth
          => LET n == Len(table.lookups)
                 f == Len(table.features)
                 chws == table'.features[f + 1]
                 vchw == table'.features[f + 2]
             IN  /\ IsPrefix(table.lookups, table'.lookups)
                 /\ IsPrefix(table.features, table'.features)
                 /\ LangSysKeepEntries(table.scripts, table'.scripts)
                 /\ Len(table'.lookups) = n + 6
                 /\ Len(table'.features) = f + 2
                 /\ chws.FeatureTag = "chws"
                 /\ vchw.FeatureTag = "vchw"
                 /\ NewLookupsAt(table', n, chws)
                 /\ NewLookupsAt(table', n + 3, vchw)]_vars

\* chws and vchw were added to a table that had a lookup, a feature and
\* language systems listing the feature.
C21_Witness ==
    /\ synth.op = "add_to_font"
    /\ synth.error = "none"
    /\ synth.called = <<"chws", "vchw">>
    /\ Len(table.lookups) = 7
    /\ table.lookups[1] = ExistingLookup
    /\ table.features[1].FeatureTag = "kern"
    /\ table.features[2].LookupListIndex = <<1, 3>>
    /\ table.features[3].LookupListIndex = <<4, 6>>
    /\ table.scripts[2].LangSysRecord[1].FeatureIndex = <<0, 1, 2>>

(***************************************************************************)
(* Claim C22 (SpecLookup).                                                 *)
(***************************************************************************)

\* The glyphs a list of glyph names names, and the name of a glyph.
GlyphsNamed(names) == {names[i][2] : i \in 1..Len(names)}
NameOf(glyph) == <<"glyph", glyph>>

\* The list names exactly the glyphs of the set, each once.
NamesExactly(names, glyphs) ==
    /\ GlyphsNamed(names) = glyphs
    /\ Len(names) = Cardinality(glyphs)
    /\ \A i \in 1..Len(names) : names[i] = NameOf(names[i][2])

\* The value records of a font whose fullwidth advance is em: half the
\* advance, rounded down, is taken from the advance of a left glyph, and a
\* right glyph is moved by it as well.
ExpectedLeftValue(is_vertical, em) ==
    LET half == CHOOSE h \in 0..em : 2 * h <= em /\ em < 2 * h + 2
    IN  IF is_vertical THEN {<<"YAdvance", 0 - half>>}
        ELSE {<<"XAdvance", 0 - half>>}

ExpectedRightValue(is_vertical, em) ==
    LET half == CHOOSE h \in 0..em : 2 * h <= em /\ em < 2 * h + 2
    IN  IF is_vertical
        THEN {<<"YPlacement", half>>, <<"YAdvance", 0 - half>>}
        ELSE {<<"XPlacement", 0 - half>>, <<"XAdvance", 0 - half>>}

\* C22: the pair lookup has exactly the left glyphs as first class and the
\* left, middle and right glyphs together as second class, the left-half
\* value on the first glyph and no value on the second; the single lookup
\* maps every right glyph, and only right glyphs, to the right-half value;
\* the rule of the chained context lookup has the right glyphs as input,
\* the middle and right glyphs together as the one preceding glyph, no
\* following glyph, and invokes exactly the single lookup appended just
\* before it.
C22_ContentOfLookups ==
    [][(synth.op = "none" /\ synth'.op = "build_lookup"
        /\ synth'.error = "none")
       => LET n == Len(table.lookups)
              t == synth.trio
              is_vertical == synth'.font.is_vertical
              em == synth'.em_h
              pair == table'.lookups[n + 1]
              single == table'.lookups[n + 2]
              chain == table'.lookups[n + 3]
          IN  /\ pair.type = "PairPos"
              /\ NamesExactly(pair.glyphs1, t.left)
              /\ NamesExactly(pair.glyphs2,
                              t.left \cup t.middle \cup t.right)
              /\ pair.value1 = ExpectedLeftValue(is_vertical, em)
              /\ pair.value2 = NoValue
              /\ single.type = "SinglePos"
              /\ single.mapping =
                    {<<NameOf(g), ExpectedRightValue(is_vertical, em)>> :
                        g \in t.right}
              /\ chain.type = "ChainContextPos"
              /\ Len(chain.glyphs) = 1
              /\ NamesExactly(chain.glyphs[1], t.right)
              /\ Len(chain.prefix) = 1
              /\ NamesExactly(chain.prefix[1], t.middle \cup t.right)
              /\ chain.suffix = <<>>
              /\ chain.lookups = <<<<n + 1>>>>]_vars

\* The lookups of a vertical font for one left, one middle and one right
\* glyph, appended to a table that had one lookup.
C22_Witness ==
    /\ synth.op = "build_lookup"
    /\ synth.error = "none"
    /\ synth.font.is_vertical
    /\ synth.em_h = 999
    /\ synth.trio.left = {2}
    /\ synth.trio.middle = {1}
    /\ synth.trio.right = {3}
    /\ Len(table.lookups) = 4
    /\ table.lookups[2].glyphs2 = <<NameOf(2), NameOf(1), NameOf(3)>>
    /\ table.lookups[2].value1 = {<<"YAdvance", 0 - 499>>}
    /\ table.lookups[3].mapping =
          {<<NameOf(3), {<<"YPlacement", 499>>, <<"YAdvance", 0 - 499>>}>>}
    /\ table.lookups[4].prefix = <<<<NameOf(1), NameOf(3)>>>>
    /\ table.lookups[4].lookups = <<<<2>>>>

(***************************************************************************)
(* One trio used with the fonts of several roots (SpecBinding): a trio     *)
(* that was built or used before gets one more call, add_glyphs,           *)
(* add_to_table or build_lookup, with a face or a vertical font of any     *)
(* root.  synth records the call.                                          *)
(***************************************************************************)
MaxBindingRoot == 2
BindingRoots == 1..MaxBindingRoot

\* The fonts the trio is used with.
BindingFonts ==
    {[root |-> r, is_vertical |-> v, gsub_scripts |-> HaniScripts,
      gpos_scripts |-> NoScripts] : r \in BindingRoots, v \in BOOLEAN}

\* The trio before the call: GlyphSetTrio(left, right, middle) as built
\* (no root font yet), or bound to a root by an earlier call.
BindingTrios ==
    {t \in [left : GlyphSets, right : GlyphSets, middle : GlyphSets,
            root_font : {0} \cup BindingRoots] : glyphs_are_disjoint(t)}

BindingInit ==
    /\ call = NoCall
    /\ trio \in BindingTrios
    /\ cache = [h \in BindingRoots \X BOOLEAN |-> NoCache]
    /\ \E is_vertical \in BOOLEAN : pass = IdlePass(is_vertical)
    /\ spacing = <<>>
    /\ table \in {t \in SynthTables :
                     t.exists /\ t.features = <<>> /\ t.scripts # <<>>}
    /\ synth = NoSynth
    /\ IdleBuild

\* trio.add_glyphs(font, config), lines 72-73: as BeginPass, for a font of
\* any root; the await of the advance, the classifiers and lines 82-85
\* are the steps of the pass.
AddGlyphsOnTrio ==
    /\ synth.op = "none"
    /\ pass.pc = "idle"
    /\ \E font \in BindingFonts,
          config \in ConfigsReading(TRUE, TRUE, FALSE) :
          /\ font.is_vertical = pass.is_vertical
          /\ IF ~assert_font(trio, font)
             THEN /\ pass' = Raised("assert_font")
                  /\ UNCHANGED trio
                  /\ synth' = [NoSynth EXCEPT !.op = "add_glyphs",
                                              !.font = font,
                                              !.error = "assert_font"]
             ELSE /\ trio' = [trio EXCEPT !.root_font = root_or_self(font)]
                  /\ synth' = [NoSynth EXCEPT !.op = "add_glyphs",
                                              !.font = font]
                  /\ pass' = AwaitingAdvance(font, config)
    /\ UNCHANGED <<call, cache, spacing, table, build>>

\* trio.add_to_table(font, table, feature_tag)
AddToTableOnTrio ==
    /\ synth.op = "none"
    /\ pass.pc = "idle"
    /\ \E font \in BindingFonts, em \in EmValues,
          feature_tag \in {"chws", "vchw"} :
          LET out == add_to_table(trio, font, em, table, feature_tag)
          IN  /\ trio' = out.trio
              /\ table' = out.table
              /\ synth' = [NoSynth EXCEPT !.op = "add_to_table",
                                          !.font = font, !.tag = feature_tag,
                                          !.em_h = em, !.error = out.error]
    /\ UNCHANGED <<call, cache, pass, spacing, build>>

\* trio.build_lookup(font, table.LookupList.Lookup): assert_font (line
\* 332) comes first, then the half em and its assertion, then the
\* builders, each with its assertion, and the appends.
BuildLookupOnTrio ==
    /\ synth.op = "none"
    /\ pass.pc = "idle"
    /\ \E font \in BindingFonts, em \in EmValues :
          IF ~assert_font(trio, font)
          THEN /\ synth' = [NoSynth EXCEPT !.op = "build_lookup",
                                           !.font = font, !.em_h = em,
                                           !.error = "assert_font"]
               /\ UNCHANGED <<trio, table>>
          ELSE LET bound == [trio EXCEPT !.root_font = root_or_self(font)]
                   out == build_lookup(bound, font, em, table.lookups)
               IN  /\ trio' = bound
                   /\ table' = [table EXCEPT !.lookups = out.lookups]
                   /\ synth' = [NoSynth EXCEPT
                                   !.op = "build_lookup", !.font = font,
                                   !.em_h = em,
                                   !.error = out.error,
                                   !.called = out.lookup_indices]
    /\ UNCHANGED <<call, cache, pass, spacing, build>>

BindingNext ==
    \/ AddGlyphsOnTrio
    \/ AddToTableOnTrio
    \/ BuildLookupOnTrio
    \/ EnsureFullwidthAdvance
    \/ OpeningClosingEnds
    \/ PeriodCommaEnds
    \/ ColonSemicolonEnds
    \/ ExclamQuestionEnds
    \/ EndPass

SpecBinding == BindingInit /\ [][BindingNext]_vars

(***************************************************************************)
(* Claim C23 (SpecBinding).                                                *)
(***************************************************************************)

\* A step that is the call of the trio with a font.
TrioCalled == synth.op = "none" /\ synth'.op # "none"

\* C23 as stated: a later add_glyphs, add_to_table or build_lookup with a
\* font of another root fails the assertion of assert_font, before any
\* probe is issued and with the trio, the cache and the table as they
\* were; a call with a face or a vertical font of the same root passes it.
C23_AsStated ==
    [][TrioCalled
          => LET root == root_or_self(synth'.font)
             IN  IF trio.root_font \notin {0, root}
                 THEN /\ synth'.error = "assert_font"
                      /\ synth'.op = "add_glyphs" => pass'.pc = "raised"
                      /\ UNCHANGED <<trio, cache, table, call>>
                 ELSE synth'.error # "assert_font"]_vars

\* C23: a trio is bound to the root of the first font it is used with and
\* stays bound to it.  A later add_glyphs, add_to_table or build_lookup
\* with a font of another root fails an assertion (the one of assert_font,
\* unless add_to_table finds the trio unusable first) before any probe is
\* issued and with the trio, the cache and the table as they were; a call
\* with a face or a vertical font of the same root passes assert_font,
\* which binds a trio that was not bound.
C23_TrioIsBoundToOneRoot ==
    [][/\ trio.root_font # 0 => trio'.root_font = trio.root_font
       /\ TrioCalled
          => LET root == root_or_self(synth'.font)
             IN  IF trio.root_font \notin {0, root}
                 THEN /\ synth'.error \in
                            {"assert_font", "assert can_add_to_table"}
                      /\ synth'.error = "assert can_add_to_table"
                            <=> /\ synth'.op = "add_to_table"
                                /\ ~(trio.left # {} /\ trio.right # {})
                      /\ synth'.op = "add_glyphs" => pass'.pc = "raised"
                      /\ UNCHANGED <<trio, cache, table, call>>
                 ELSE /\ synth'.error # "assert_font"
                      /\ synth'.error # "assert can_add_to_table"
                            => trio'.root_font = root]_vars

\* add_glyphs refused a usable trio bound to the first root, called with
\* a font of the second root.
C23_Witness ==
    /\ trio.root_font = 1
    /\ trio.left # {} /\ trio.right # {}
    /\ synth.op = "add_glyphs"
    /\ synth.font.root = 2
    /\ synth.error = "assert_font"
    /\ pass.pc = "raised"

\* add_to_table refused an unusable trio bound to the first root, called
\* with a font of the second root, by its first assertion.
C23_WitnessUnusable ==
    /\ trio.root_font = 1
    /\ trio.left = {} /\ trio.right # {}
    /\ synth.op = "add_to_table"
    /\ synth.font.root = 2
    /\ synth.error = "assert can_add_to_table"

\* add_to_table accepted a trio bound to the first root with the vertical
\* font of that root.
C23_WitnessAccepted ==
    /\ trio.root_font = 1
    /\ synth.op = "add_to_table"
    /\ synth.font.root = 1
    /\ synth.font.is_vertical
    /\ synth.error = "none"

(***************************************************************************)
(* Claim C24 (SpecGroup).                                                  *)
(***************************************************************************)

\* C24: for a vertical font, no glyph of the middle set that
\* get_colon_semicolon returns is a glyph the horizontal font produces for
\* the colon and semicolon under the Japanese tag, whatever the language,
\* the centered flag and the cache hold.  (The probe of the horizontal
\* font is p.ja_horizontal, empty when the call did not issue it.)
C24_VerticalMiddleDiffersFromHorizontal ==
    (call.op = "colon_semicolon" /\ call.font.is_vertical
     /\ call.out.kind = "trio")
        => call.out.trio.middle \cap call.p.ja_horizontal = {}

(***************************************************************************)
(* Claim C25 (SpecCollection).                                             *)
(***************************************************************************)

\* The synthesis has started: something of the second loop of
\* build_collection shows in a table or in the builder.
SynthesisStarted ==
    \/ \E i \in BuildFaces : TableOf(i) # OriginalTable(i)
    \/ has_spacings
    \/ build.built_fonts # <<>>

\* The errors with which the classification of a face ends the build:
\* language required, cache consistency, disjointness.
ClassificationErrors ==
    {"require_language", "cache assert", "disjoint assert"}

\* The classification of a face has raised.
ClassificationRaised ==
    build.pc = "raised" /\ build.error \in ClassificationErrors

C26_AddToFontAddsAFeature ==
    [][(synth.op = "none" /\ synth'.op = "add_to_font"
        /\ synth'.error = "none")
       => /\ Len(table'.features) > Len(table.features)
          /\ table'.features[Len(table'.features)].FeatureTag
                \in {"chws", "vchw"}]_vars

====
